---- MODULE Spec2Model ----
(***************************************************************************)
(* A model of the parsers of mesh-thumbnail (src/src/parse_mesh.rs) and of  *)
(* the thumbnail driver (src/src/lib.rs):                                  *)
(*   - parse_slic3r_volumes : line scan of Slic3r_PE_model.config          *)
(*   - parse_gcode_inner    : replay of G0/G1 lines into tube segments     *)
(*   - parse_obj_inner      : per-object meshes and the choice of one      *)
(*   - extract_extruder_colors_from_3mf : the extruder color table         *)
(*   - parse_3mf            : parts from build items and volume ranges     *)
(*   - parse_file, generate_thumbnail_for_file_with_context                *)
(*   - generate_thumbnail_for_file, generate_thumbnail_bytes_for_file      *)
(*   - load_thumbnail_from_gcode_reader : the embedded G-code thumbnail    *)
(*   - render_model, render_pixels_for_view : bounding box and placement   *)
(* Each has its own specification (SpecVolumes, SpecGcode, SpecObj,        *)
(* SpecColors, Spec3mf, SpecThumb, SpecGenerate, SpecGcodeThumb,           *)
(* SpecRender); the variables of the others stay at their initial values.  *)
(* Variables whose name starts with h_ are history                         *)
(* variables: they record what the code read or did and are never read by  *)
(* the code.                                                               *)
(***************************************************************************)
EXTENDS Integers, Sequences, FiniteSets, TLC

VARIABLES
    \* ---- parse_slic3r_volumes ----
    extruder_colors,     \* &[Srgba], the extruder table (input)
    current_object_id,   \* Option<usize>
    object_extruder,     \* Option<usize>
    current_volumes,     \* Vec<VolumeInfo>
    in_volume,           \* bool
    current_first_id,    \* Option<usize>
    current_last_id,     \* Option<usize>
    current_extruder,    \* Option<usize>
    current_color,       \* Option<Srgba>
    object_volumes,      \* HashMap<usize, Vec<VolumeInfo>>
    v_pc,                \* "scan" while lines are read, "done" after the loop
    v_lines,             \* number of lines read
    h_sources,           \* per pushed volume: what the resolution read
    h_declared,          \* ranges declared inside the current object
    h_closed,            \* the object closed last: its id and h_declared
    \* ---- parse_gcode_inner ----
    entries,             \* Vec<Point>
    last_x, last_y, last_z,
    position_unsafe,     \* bool
    g_pc,                \* "scan" | "done"
    g_result,            \* "none" | "Ok" | "ParseError" | "ReadError"
    tubes,               \* the segments a cylinder was generated for
    h_input,             \* the lines read so far
    h_prev,              \* the loop's variables before the last line
    h_gaps,              \* entry count at a travel move |-> position after it
    h_stop,              \* entries and position at the first non-motion line
    \* ---- parse_obj_inner ----
    obj,                 \* ObjSet.objects (input, built object by object)
    o_pc,                \* "build" | "done"
    o_result,            \* the Result: its status and, when Ok, the mesh
    \* ---- extract_extruder_colors_from_3mf ----
    color_line,          \* Option: the entries of the "; extruder_colour =" line
    c_pc,                \* "idle" | "build" | "done"
    c_panic,             \* parse_hex_color_to_srgba panicked
    \* ---- parse_3mf ----
    overflow_checks,     \* the build panics on arithmetic overflow (else wraps)
    mf_objects,          \* resources.object of the decoded model (input)
    mf_items,            \* build.item of the decoded model (input)
    object_map,          \* HashMap<usize, &threemf::Mesh>
    result_meshes,       \* Vec<MeshWithTransform>
    mf_next,             \* the build item the loop is at
    mf_pc,               \* "idle" | "colors" | "volumes" | "map" | "items" | "done"
    mf_result,           \* "none" | "Ok" | "MeshConvertError" | "Panic"
    h_used,              \* the ranges that reached the take() of line 189
    \* ---- generate_thumbnail_for_file_with_context ----
    t_path,              \* the file name, built piece by piece (input)
    t_pc,                \* "idle" | "build" | "done"
    t_outcome,           \* what the call did and returned, see Outcome
    t_image,             \* the name of the image written
    \* ---- load_thumbnail_from_gcode_reader ----
    gcode_images,        \* Vec<GcodeImage>
    in_gcode_section,    \* bool
    gcode_img_width,
    gcode_img_height,
    image,               \* String: the base64 text collected, group by group
    gt_pc,               \* "idle" | "scan" | "done"
    gt_result,           \* "none" | "Image" | "Err" | "Panic"
    gt_stop,             \* why the loop ended: "none" | "eof" | "break" | ...
    h_lines,             \* the lines read so far
    h_section,           \* in_gcode_section before the last line
    \* ---- generate_thumbnail_for_file, generate_thumbnail_bytes_for_file ----
    call_file,           \* the file name (input)
    call_options,        \* ThumbnailOptions as the caller passes them (input)
    call_env,            \* what the file system and the readers answer (input)
    call_kind,           \* "idle" | "none" | "file" | "bytes"
    call_outcome,        \* what the call did and returned
    \* ---- render_pixels_for_view ----
    r_file,              \* the file name (input)
    r_meshes,            \* parse_result.meshes (input)
    r_pc,                \* "idle" | "build" | "done"
    combined_min,        \* Option<Vec3>: None is the box of no point
    combined_max,
    r_offset,            \* Option<Mat4>
    r_models             \* the transformation of each model

volVars == <<extruder_colors, current_object_id, object_extruder, current_volumes,
             in_volume, current_first_id, current_last_id, current_extruder,
             current_color, object_volumes, v_pc, v_lines, h_sources, h_declared,
             h_closed>>
\* The variables of the volume scan other than the extruder table.
scanVars == <<current_object_id, object_extruder, current_volumes, in_volume,
              current_first_id, current_last_id, current_extruder, current_color,
              object_volumes, v_pc, v_lines, h_sources, h_declared, h_closed>>
gcodeVars == <<entries, last_x, last_y, last_z, position_unsafe, g_pc, g_result,
               tubes, h_input, h_prev, h_gaps, h_stop>>
objVars == <<obj, o_pc, o_result>>
colorVars == <<color_line, c_pc, c_panic>>
mfVars == <<overflow_checks, mf_objects, mf_items, object_map, result_meshes,
            mf_next, mf_pc, mf_result, h_used>>
thumbVars == <<t_path, t_pc, t_outcome, t_image>>
gtVars == <<gcode_images, in_gcode_section, gcode_img_width, gcode_img_height,
            image, gt_pc, gt_result, gt_stop, h_lines, h_section>>
callVars == <<call_file, call_options, call_env, call_kind, call_outcome>>
renderVars == <<r_file, r_meshes, r_pc, combined_min, combined_max, r_offset, r_models>>
vars == <<volVars, gcodeVars, objVars, colorVars, mfVars, thumbVars, gtVars, callVars,
          renderVars>>

\* ------------------------------------------------------------------------
\* Option<T>: None is the empty sequence, Some(v) the one-element sequence.
None == <<>>
Some(v) == <<v>>
IsSome(o) == o # <<>>
Unwrap(o) == o[1]

\* Option::or
OrElse(a, b) == IF IsSome(a) THEN a ELSE b

\* ---- bounds ----
MaxVolLines == 5
MaxGcodeLines == 5
MaxObjects == 3
MaxShapes == 2
MaxGeometries == 2
MaxColorEntries == 3
MaxConfigLines == 4
MaxPathLen == 11
MaxThumbLines == 4
MaxImages == 3
MaxMeshes == 2

\* ========================================================================
\* parse_slic3r_volumes
\* ========================================================================

\* A captured (\d+) group: its value, and whether it fits a usize.
Digits(n) == [value |-> n, fits |-> TRUE]
TooManyDigits == [value |-> 0, fits |-> FALSE]

\* m.as_str().parse().ok() on a captured (\d+) group
ParseUsize(tok) == IF tok.fits THEN Some(tok.value) ELSE None

\* The bytes of a text: hex digits are 0..15, 16 stands for an ASCII character
\* that is no hex digit, PlusSign for '+', LeadByte and ContByte for the two
\* bytes of a character that UTF-8 encodes in two bytes.
PlusSign == 17
LeadByte == 18
ContByte == 19

\* u8::from_str_radix(_, 16).ok() on a slice of two bytes; a leading '+' is a
\* sign, so "+F" is 15.
HexByte(hi, lo) ==
    IF hi = PlusSign /\ lo <= 15 THEN Some(lo)
    ELSE IF hi > 15 \/ lo > 15 THEN None ELSE Some(16 * hi + lo)

\* parse_hex_color_to_srgba, on the text after the leading '#'
ParseHexColorToSrgba(hex) ==
    IF Len(hex) # 6 THEN None
    ELSE LET r == HexByte(hex[1], hex[2])
             g == HexByte(hex[3], hex[4])
             b == HexByte(hex[5], hex[6])
         IN IF IsSome(r) /\ IsSome(g) /\ IsSome(b)
            THEN Some(<<Unwrap(r), Unwrap(g), Unwrap(b)>>)
            ELSE None

\* &hex[0..2], &hex[2..4] and &hex[4..6] panic when the slice ends inside a
\* character; the second slice is only taken when the first byte parsed.
HexSlicePanics(hex) ==
    /\ Len(hex) = 6
    /\ \/ hex[3] = ContByte
       \/ IsSome(HexByte(hex[1], hex[2])) /\ hex[5] = ContByte

\* A line of the stream, as what the five regexes and the "</volume>" test
\* find in it: each field is None (no match) or Some(captured text).
VLine(oid, oext, vol, vext, col, vend) ==
    [object_id |-> oid, object_extruder |-> oext, volume |-> vol,
     volume_extruder |-> vext, color |-> col, volume_end |-> vend]

ColorRed == <<15, 15, 0, 0, 0, 0>>       \* "#FF0000"

VolLines ==
    { VLine(Some(Digits(1)), None, None, None, None, FALSE),   \* <object id="1"
      VLine(Some(Digits(2)), None, None, None, None, FALSE),   \* <object id="2"
      VLine(None, Some(Digits(1)), None, None, None, FALSE),   \* object extruder 1
      VLine(None, None, Some(<<Digits(0), Digits(1)>>), None, None, FALSE),
      VLine(None, None, Some(<<Digits(3), Digits(2)>>), None, None, FALSE),
      VLine(None, None, Some(<<TooManyDigits, Digits(1)>>), None, None, FALSE),
      VLine(None, None, None, Some(Digits(0)), None, FALSE),   \* volume extruder 0
      VLine(None, None, None, Some(Digits(2)), None, FALSE),   \* volume extruder 2
      VLine(None, None, None, Some(Digits(3)), None, FALSE),   \* volume extruder 3
      VLine(None, None, None, None, Some(ColorRed), FALSE),    \* volume color
      VLine(None, None, None, None, None, TRUE),               \* </volume>
      \* a whole volume block on one line
      VLine(None, None, Some(<<Digits(2), Digits(3)>>), Some(Digits(2)), None, TRUE) }

\* The extruder tables tried: empty, and two colors.
ExtruderTables == { <<>>, << <<0, 0, 255>>, <<0, 255, 0>> >> }

\* The scan's local variables, as one record (h_ fields are history).
VolState ==
    [current_object_id |-> current_object_id, object_extruder |-> object_extruder,
     current_volumes |-> current_volumes, in_volume |-> in_volume,
     current_first_id |-> current_first_id, current_last_id |-> current_last_id,
     current_extruder |-> current_extruder, current_color |-> current_color,
     object_volumes |-> object_volumes,
     h_sources |-> h_sources, h_declared |-> h_declared, h_closed |-> h_closed]

\* HashMap::insert
MapInsert(m, k, v) == [x \in DOMAIN m \cup {k} |-> IF x = k THEN v ELSE m[x]]

\* A resolution that tries the object extruder before the volume extruder.
ObjectFirstResolveColor(color, extruder, obj_extruder, table) ==
    OrElse(color,
           LET ext == OrElse(obj_extruder, extruder)
           IN IF IsSome(ext) /\ Unwrap(ext) > 0 /\ Unwrap(ext) <= Len(table)
              THEN Some(table[Unwrap(ext)])
              ELSE None)

\* The closure of lines 400-409 and 446-455: the color of a volume.
ResolveColor(color, extruder, obj_extruder, table) ==
    OrElse(color,
           LET ext == OrElse(extruder, obj_extruder)
           IN IF IsSome(ext) /\ Unwrap(ext) > 0 /\ Unwrap(ext) <= Len(table)
              THEN Some(table[Unwrap(ext)])
              ELSE None)

\* current_volumes.push(VolumeInfo { .. }) with the resolved color
PushVolume(s, table) ==
    [s EXCEPT
       !.current_volumes =
           Append(@, [first_triangle_id |-> Unwrap(s.current_first_id),
                      last_triangle_id |-> Unwrap(s.current_last_id),
                      color |-> ResolveColor(s.current_color, s.current_extruder,
                                             s.object_extruder, table)]),
       !.h_sources =
           Append(@, [color |-> s.current_color, extruder |-> s.current_extruder,
                      object_extruder |-> s.object_extruder])]

\* "Save previous object's volumes", lines 376-380 and 473-477
SaveObject(s) ==
    IF IsSome(s.current_object_id)
    THEN [s EXCEPT
            !.object_volumes =
                IF s.current_volumes # <<>>
                THEN MapInsert(@, Unwrap(s.current_object_id), s.current_volumes)
                ELSE @,
            !.h_closed = Some([id |-> Unwrap(s.current_object_id),
                               declared |-> s.h_declared])]
    ELSE s

\* lines 374-387
ObjectStart(s, line) ==
    IF IsSome(line.object_id)
    THEN [SaveObject(s) EXCEPT
            !.current_object_id = ParseUsize(Unwrap(line.object_id)),
            !.object_extruder = None,
            !.current_volumes = <<>>,
            !.in_volume = FALSE,
            !.h_sources = <<>>,
            !.h_declared = 0]
    ELSE s

\* lines 390-394
ObjectExtruder(s, line) ==
    IF ~s.in_volume /\ IsSome(line.object_extruder)
    THEN [s EXCEPT !.object_extruder = ParseUsize(Unwrap(line.object_extruder))]
    ELSE s

\* lines 397-424
VolumeStart(s, line) ==
    IF IsSome(line.volume)
    THEN LET saved == IF s.in_volume /\ IsSome(s.current_first_id)
                         /\ IsSome(s.current_last_id)
                      THEN PushVolume(s, extruder_colors)
                      ELSE s
             first == ParseUsize(Unwrap(line.volume)[1])
             last == ParseUsize(Unwrap(line.volume)[2])
         IN [saved EXCEPT
               !.in_volume = TRUE,
               !.current_first_id = first,
               !.current_last_id = last,
               !.current_extruder = None,
               !.current_color = None,
               !.h_declared = IF IsSome(s.current_object_id) /\ IsSome(first)
                                 /\ IsSome(last)
                              THEN @ + 1 ELSE @]
    ELSE s

\* lines 427-431
VolumeExtruder(s, line) ==
    IF s.in_volume /\ IsSome(line.volume_extruder)
    THEN [s EXCEPT !.current_extruder = ParseUsize(Unwrap(line.volume_extruder))]
    ELSE s

\* lines 434-440
InlineColor(s, line) ==
    IF s.in_volume /\ IsSome(line.color)
    THEN [s EXCEPT !.current_color = ParseHexColorToSrgba(Unwrap(line.color))]
    ELSE s

\* lines 443-469
VolumeEnd(s, line) ==
    IF line.volume_end /\ s.in_volume
    THEN LET saved == IF IsSome(s.current_first_id) /\ IsSome(s.current_last_id)
                      THEN PushVolume(s, extruder_colors)
                      ELSE s
         IN [saved EXCEPT
               !.in_volume = FALSE,
               !.current_first_id = None,
               !.current_last_id = None,
               !.current_extruder = None,
               !.current_color = None]
    ELSE s

\* The body of the loop over content.lines(), lines 372-470
ScanVolumeLine(s, line) ==
    VolumeEnd(InlineColor(VolumeExtruder(VolumeStart(ObjectExtruder(
        ObjectStart(s, line), line), line), line), line), line)

SetVolState(s) ==
    /\ current_object_id' = s.current_object_id
    /\ object_extruder' = s.object_extruder
    /\ current_volumes' = s.current_volumes
    /\ in_volume' = s.in_volume
    /\ current_first_id' = s.current_first_id
    /\ current_last_id' = s.current_last_id
    /\ current_extruder' = s.current_extruder
    /\ current_color' = s.current_color
    /\ object_volumes' = s.object_volumes
    /\ h_sources' = s.h_sources
    /\ h_declared' = s.h_declared
    /\ h_closed' = s.h_closed

VolInit ==
    /\ extruder_colors \in ExtruderTables
    /\ current_object_id = None
    /\ object_extruder = None
    /\ current_volumes = <<>>
    /\ in_volume = FALSE
    /\ current_first_id = None
    /\ current_last_id = None
    /\ current_extruder = None
    /\ current_color = None
    /\ object_volumes = <<>>
    /\ v_pc = "scan"
    /\ v_lines = 0
    /\ h_sources = <<>>
    /\ h_declared = 0
    /\ h_closed = None

\* One iteration of the loop, on any line of the alphabet.
VolReadLine ==
    /\ v_pc = "scan"
    /\ v_lines < MaxVolLines
    /\ \E line \in VolLines : SetVolState(ScanVolumeLine(VolState, line))
    /\ v_lines' = v_lines + 1
    /\ UNCHANGED <<extruder_colors, v_pc>>

\* End of the stream: "Don't forget the last object", lines 472-477
VolFinish ==
    /\ v_pc = "scan"
    /\ SetVolState(SaveObject(VolState))
    /\ v_pc' = "done"
    /\ UNCHANGED <<extruder_colors, v_lines>>

\* ========================================================================
\* Claims about parse_slic3r_volumes
\* ========================================================================
ValidExtruder(ext) ==
    IsSome(ext) /\ Unwrap(ext) > 0 /\ Unwrap(ext) <= Len(extruder_colors)

\* The volumes pushed so far, each with what its resolution read.
Pushed == { [volume |-> current_volumes[i], source |-> h_sources[i]] :
            i \in DOMAIN current_volumes }

C2_InvalidVolumeExtruderFallsBack ==
    \A p \in Pushed :
        (/\ ~IsSome(p.source.color)
         /\ IsSome(p.source.extruder)
         /\ ~ValidExtruder(p.source.extruder)
         /\ ValidExtruder(p.source.object_extruder))
        => p.volume.color
              = Some(extruder_colors[Unwrap(p.source.object_extruder)])

\* The list recorded for an object id (none recorded: the empty list).
VolumesOf(id) == IF id \in DOMAIN object_volumes THEN object_volumes[id] ELSE <<>>

\* C3: when an object is closed (by the next object or by the end of the
\* stream), its recorded list holds one entry per volume block that declared
\* a triangle range inside it, however each block ended.
C3_EveryDeclaredVolumeRecordedOnce ==
    (IsSome(h_closed) /\ Unwrap(h_closed).declared > 0)
    => Len(VolumesOf(Unwrap(h_closed).id)) = Unwrap(h_closed).declared

\* ========================================================================
\* parse_gcode_inner
\* ========================================================================

\* A captured ([\d.]+) group: its value, and whether it is a float literal
\* ("1.2.3" and "." are not).
Num(n) == [value |-> n, ok |-> TRUE]
BadNum == [value |-> 0, ok |-> FALSE]

\* as_str().parse::<f32>()
ParseF32(tok) == IF tok.ok THEN Some(tok.value) ELSE None

\* A line of the file: readable (valid UTF-8) or not; motion: it starts with
\* "G1" or "G0"; z: the capture of regex_z; x, y: the captures of
\* X([\d.]+)\s+Y([\d.]+); e: the X..Y.. match is followed by \s+E (regex_xy).
GLine(readable, motion, z, xy, e) ==
    [readable |-> readable, motion |-> motion, z |-> z, xy |-> xy, e |-> e]

LineComment == GLine(TRUE, FALSE, None, None, FALSE)                        \* "; layer"
LineArc == GLine(TRUE, FALSE, None, Some(<<Num(2), Num(1)>>), TRUE)     \* "G2 X2 Y1 E1"
LineExtrude10 == GLine(TRUE, TRUE, None, Some(<<Num(1), Num(0)>>), TRUE)  \* "G1 X1 Y0 E1"
LineTravel11 == GLine(TRUE, TRUE, None, Some(<<Num(1), Num(1)>>), FALSE)  \* "G0 X1 Y1"
LineExtrude21 == GLine(TRUE, TRUE, None, Some(<<Num(2), Num(1)>>), TRUE)  \* "G1 X2 Y1 E1"
LineZ1 == GLine(TRUE, TRUE, Some(Num(1)), None, FALSE)                     \* "G1 Z1"
LineZExtrude21 ==
    GLine(TRUE, TRUE, Some(Num(1)), Some(<<Num(2), Num(1)>>), TRUE)      \* "G1 Z1 X2 Y1 E1"
LineBadX == GLine(TRUE, TRUE, None, Some(<<BadNum, Num(0)>>), TRUE)      \* "G1 X1.2.3 Y0 E1"
LineNotUtf8 == GLine(FALSE, FALSE, None, None, FALSE)

GcodeLines == { LineComment, LineArc, LineExtrude10, LineTravel11, LineExtrude21,
                LineZ1, LineZExtrude21, LineBadX, LineNotUtf8 }

\* vec3(-last_x, last_z, last_y)
Vec3Of(x, y, z) == <<0 - x, z, y>>

Point(x, y, z, use_line) == [v |-> Vec3Of(x, y, z), use_line |-> use_line]

\* A test that takes every line for a motion line.
EveryLineIsMotion(line) == TRUE

\* line.starts_with("G1") || line.starts_with("G0"), line 684
IsMotionLine(line) == line.motion

\* The loop's local variables as one record; err is the error a `?` returned.
GcodeState ==
    [entries |-> entries, last_x |-> last_x, last_y |-> last_y, last_z |-> last_z,
     position_unsafe |-> position_unsafe, err |-> "none"]

\* lines 685-687
UpdateZ(s, line) ==
    IF IsSome(line.z)
    THEN LET z == ParseF32(Unwrap(line.z))
         IN IF IsSome(z) THEN [s EXCEPT !.last_z = Unwrap(z)]
            ELSE [s EXCEPT !.err = "ParseError"]
    ELSE s

\* An extrusion that clears the flag and pushes no anchor.
NoAnchor(s) == [s EXCEPT !.position_unsafe = FALSE]

\* An anchor push that leaves the flag set.
PushAnchorKeepingFlag(s) ==
    IF s.position_unsafe
    THEN [s EXCEPT !.entries = Append(@, Point(s.last_x, s.last_y, s.last_z, FALSE))]
    ELSE s

\* lines 690-696: the anchor pushed when the position is unsafe
PushAnchor(s) ==
    IF s.position_unsafe
    THEN [s EXCEPT !.entries = Append(@, Point(s.last_x, s.last_y, s.last_z, FALSE)),
                   !.position_unsafe = FALSE]
    ELSE s

\* lines 698-699 and 706-707: last_x and last_y from the two captures
ParseXY(s, line) ==
    LET x == ParseF32(Unwrap(line.xy)[1])
        y == ParseF32(Unwrap(line.xy)[2])
    IN IF ~IsSome(x) THEN [s EXCEPT !.err = "ParseError"]
       ELSE IF ~IsSome(y) THEN [s EXCEPT !.last_x = Unwrap(x), !.err = "ParseError"]
       ELSE [s EXCEPT !.last_x = Unwrap(x), !.last_y = Unwrap(y)]

\* lines 689-704: a line regex_xy matches
ExtrusionMove(s, line) ==
    LET anchored == PushAnchor(s)
        moved == ParseXY(anchored, line)
    IN IF moved.err # "none" THEN moved
       ELSE [moved EXCEPT
               !.entries = Append(@, Point(moved.last_x, moved.last_y,
                                           moved.last_z, TRUE))]

\* lines 705-709: a line only regex_xy_no_extrusion matches
TravelMove(s, line) ==
    LET moved == ParseXY(s, line)
    IN IF moved.err # "none" THEN moved
       ELSE [moved EXCEPT !.position_unsafe = TRUE]

\* The body of the loop over reader.lines(), lines 683-710
ScanGcodeLine(s, line) ==
    IF ~line.readable THEN [s EXCEPT !.err = "ReadError"]
    ELSE IF ~IsMotionLine(line) THEN s
    ELSE LET lifted == UpdateZ(s, line)
         IN IF lifted.err # "none" THEN lifted
            ELSE IF IsSome(line.xy) /\ line.e THEN ExtrusionMove(lifted, line)
            ELSE IF IsSome(line.xy) THEN TravelMove(lifted, line)
            ELSE lifted

\* A test that accepts two points.
TooFewEntriesOffByOne(es) == Len(es) <= 1

\* entries.len() <= 2, line 713
TooFewEntries(es) == Len(es) <= 2

\* lines 729-744: one cylinder per i with entries[i + 1].use_line, from
\* entries[i].v to entries[i + 1].v (indices here are 1-based)
RECURSIVE TubesFrom(_, _)
TubesFrom(es, i) ==
    IF i >= Len(es) THEN <<>>
    ELSE (IF es[i + 1].use_line
          THEN << [from |-> i, to |-> i + 1, p1 |-> es[i].v, p2 |-> es[i + 1].v] >>
          ELSE <<>>) \o TubesFrom(es, i + 1)

Tubes(es) == TubesFrom(es, 1)

IsTravel(line) == line.readable /\ line.motion /\ IsSome(line.xy) /\ ~line.e
IsExtrusion(line) == line.readable /\ line.motion /\ IsSome(line.xy) /\ line.e

GcodeInit ==
    /\ entries = <<>>
    /\ last_x = 0 /\ last_y = 0 /\ last_z = 0
    /\ position_unsafe = FALSE
    /\ g_pc = "scan"
    /\ g_result = "none"
    /\ tubes = <<>>
    /\ h_input = <<>>
    /\ h_prev = None
    /\ h_gaps = <<>>
    /\ h_stop = None

\* One iteration of the loop; an error returned by `?` ends the function.
GcodeReadLine ==
    /\ g_pc = "scan"
    /\ Len(h_input) < MaxGcodeLines
    /\ \E line \in GcodeLines :
         LET s == ScanGcodeLine(GcodeState, line)
         IN /\ entries' = s.entries
            /\ last_x' = s.last_x
            /\ last_y' = s.last_y
            /\ last_z' = s.last_z
            /\ position_unsafe' = s.position_unsafe
            /\ g_result' = s.err
            /\ g_pc' = IF s.err = "none" THEN "scan" ELSE "done"
            /\ h_input' = Append(h_input, line)
            /\ h_prev' = Some(GcodeState)
            /\ h_gaps' = IF IsTravel(line) /\ s.err = "none"
                         THEN MapInsert(h_gaps, Len(entries),
                                        <<s.last_x, s.last_y, s.last_z>>)
                         ELSE h_gaps
            /\ h_stop' = IF line.readable /\ ~line.motion /\ h_stop = None
                         THEN Some(GcodeState)
                         ELSE h_stop
    /\ UNCHANGED tubes

\* The end of the input: lines 713-750
GcodeFinish ==
    /\ g_pc = "scan"
    /\ g_pc' = "done"
    /\ IF TooFewEntries(entries)
       THEN g_result' = "ParseError" /\ tubes' = <<>>
       ELSE g_result' = "Ok" /\ tubes' = Tubes(entries)
    /\ UNCHANGED <<entries, last_x, last_y, last_z, position_unsafe,
                   h_input, h_prev, h_gaps, h_stop>>

\* ========================================================================
\* Claims about parse_gcode_inner
\* ========================================================================
LastLine == h_input[Len(h_input)]
Before == Unwrap(h_prev)

\* The tube that ends at entry k, if one was generated.
TubesTo(k) == { i \in DOMAIN tubes : tubes[i].to = k }

C5Path == <<LineExtrude10, LineTravel11, LineExtrude21>>

\* C5: the path (0,0,0) -> (1,0,0)[extrude] -> (1,1,0)[travel] ->
\* (2,1,0)[extrude] yields exactly the two tubes (0,0,0)->(1,0,0) and
\* (1,1,0)->(2,1,0).
C5_TwoTubesForExamplePath ==
    (g_pc = "done" /\ h_input = C5Path) =>
        /\ g_result = "Ok"
        /\ [i \in DOMAIN tubes |-> <<tubes[i].p1, tubes[i].p2>>]
              = << <<Vec3Of(0, 0, 0), Vec3Of(1, 0, 0)>>,
                   <<Vec3Of(1, 1, 0), Vec3Of(2, 1, 0)>> >>

\* What the input alone says: a line that cannot be read, and a motion line
\* with a number that is no float literal.
HasUnreadableLine == \E k \in DOMAIN h_input : ~h_input[k].readable
HasBadNumber ==
    \E k \in DOMAIN h_input :
        /\ h_input[k].readable /\ h_input[k].motion
        /\ \/ IsSome(h_input[k].z) /\ ~Unwrap(h_input[k].z).ok
           \/ IsSome(h_input[k].xy)
              /\ (~Unwrap(h_input[k].xy)[1].ok \/ ~Unwrap(h_input[k].xy)[2].ok)

\* C6 as stated, for inputs whose lines can all be read: the result is a
\* ParseError exactly when fewer than 3 points were collected, and a mesh
\* otherwise.
C6_Original ==
    (g_pc = "done" /\ ~HasUnreadableLine) =>
        /\ g_result = "ParseError" <=> Len(entries) < 3
        /\ g_result = "Ok" <=> Len(entries) >= 3

\* C6 amended: an unreadable line fails the parse with ReadError and a
\* malformed number on a motion line with ParseError, whatever was collected;
\* when every line is read and every number parses, the result is a ParseError
\* exactly when fewer than 3 points were collected, and a mesh otherwise.
C6_ParseErrorBelowThreePoints ==
    g_pc = "done" =>
        g_result = IF HasUnreadableLine THEN "ReadError"
                   ELSE IF HasBadNumber THEN "ParseError"
                   ELSE IF Len(entries) < 3 THEN "ParseError"
                   ELSE "Ok"

\* C6 witness: exactly 3 points collected from a well-formed input, and a mesh.
C6_Witness ==
    /\ g_pc = "done" /\ g_result = "Ok" /\ Len(entries) = 3
    /\ ~HasUnreadableLine /\ ~HasBadNumber

\* C7 as stated: after the first line that is no motion line, no line adds a
\* point or moves the position.
C7_Original ==
    IsSome(h_stop) =>
        /\ entries = Unwrap(h_stop).entries
        /\ last_x = Unwrap(h_stop).last_x
        /\ last_y = Unwrap(h_stop).last_y
        /\ last_z = Unwrap(h_stop).last_z

\* C7 amended: a line that does not begin with G0 or G1 is skipped: it adds no
\* point, changes neither the position nor the unsafe flag and does not end
\* the scan (the parse ends only at the end of the input), so that an
\* extrusion line read after it still adds its point.
C7_NonMotionLineSkipped ==
    /\ (h_input # <<>> /\ LastLine.readable /\ ~LastLine.motion) =>
          /\ g_pc = "done" =>
                g_result = IF Len(entries) < 3 THEN "ParseError" ELSE "Ok"
          /\ entries = Before.entries
          /\ last_x = Before.last_x /\ last_y = Before.last_y
          /\ last_z = Before.last_z
          /\ position_unsafe = Before.position_unsafe
    /\ (h_input # <<>> /\ IsSome(h_stop) /\ IsExtrusion(LastLine)
          /\ g_result = "none") =>
          /\ Len(entries) > Len(Before.entries)
          /\ entries[Len(entries)].use_line

\* C7 witness: a skipped line that carries X, Y and E, then an extrusion line
\* that added a point.
C7_Witness ==
    /\ Len(h_input) >= 2
    /\ h_input[Len(h_input) - 1] = LineArc
    /\ IsSome(h_stop)
    /\ IsExtrusion(LastLine)
    /\ Len(entries) > Len(Before.entries)

\* C8: an extrusion move read while the unsafe flag is set pushes an anchor at
\* the position (x, y, z) held before the line, clears the flag, and pushes a
\* drawn point at the new position, also when the line carries a Z.
C8_AnchorAtPreviousPosition ==
    (h_input # <<>> /\ IsExtrusion(LastLine) /\ g_result = "none"
       /\ Before.position_unsafe) =>
        /\ Len(entries) = Len(Before.entries) + 2
        /\ entries[Len(entries) - 1]
              = Point(Before.last_x, Before.last_y, Before.last_z, FALSE)
        /\ entries[Len(entries)] = Point(last_x, last_y, last_z, TRUE)
        /\ ~position_unsafe

GcodeIdle == GcodeInit

VolIdle == VolInit /\ extruder_colors = <<>>

\* ========================================================================
\* parse_obj_inner
\* ========================================================================

\* wavefront_obj shapes: a triangle of three vertex indices (0-based, the .0
\* of a VTNIndex), or another primitive (a line).
Triangle(i0, i1, i2) == [primitive |-> "Triangle", v |-> <<i0, i1, i2>>]
LineShape(i0, i1) == [primitive |-> "Line", v |-> <<i0, i1>>]

Shapes == { Triangle(0, 1, 2), Triangle(2, 1, 3), LineShape(0, 1) }

\* The vertex table every object is given (object.vertices).
VertexTables == { << <<0, 0, 0>>, <<1, 0, 0>>, <<0, 1, 0>>, <<0, 0, 1>> >> }

EmptyMesh == [positions |-> <<>>, indices |-> <<>>]

\* The closure `process`, lines 588-599; st holds map, positions, indices.
Process(st, vertices, i) ==
    IF i \in DOMAIN st.map
    THEN [st EXCEPT !.indices = Append(@, st.map[i])]
    ELSE [map |-> MapInsert(st.map, i, Len(st.positions)),
          positions |-> Append(st.positions, vertices[i + 1]),
          indices |-> Append(st.indices, Len(st.positions))]

\* lines 600-610: the shapes of one geometry, from shape k on
RECURSIVE ProcessShapes(_, _, _, _)
ProcessShapes(st, vertices, shapes, k) ==
    IF k > Len(shapes) THEN st
    ELSE LET sh == shapes[k]
             next == IF sh.primitive = "Triangle"
                     THEN Process(Process(Process(st, vertices, sh.v[1]),
                                          vertices, sh.v[2]), vertices, sh.v[3])
                     ELSE st
         IN ProcessShapes(next, vertices, shapes, k + 1)

\* lines 585-611: the geometries of one object, from geometry k on; the map
\* is created anew for each geometry, positions and indices are the object's
RECURSIVE ProcessGeometries(_, _, _)
ProcessGeometries(mesh, object, k) ==
    IF k > Len(object.geometry) THEN mesh
    ELSE LET st == ProcessShapes([map |-> <<>>, positions |-> mesh.positions,
                                  indices |-> mesh.indices],
                                 object.vertices, object.geometry[k], 1)
         IN ProcessGeometries([positions |-> st.positions, indices |-> st.indices],
                              object, k + 1)

\* lines 582-618: the CpuMesh of one object
BuildMesh(object) == ProcessGeometries(EmptyMesh, object, 1)

\* A sort that puts a mesh before the earlier meshes of equal length.
RECURSIVE UnstableInsertByLen(_, _)
UnstableInsertByLen(sorted, m) ==
    IF sorted = <<>> THEN <<m>>
    ELSE IF Len(Head(sorted).indices) > Len(m.indices)
         THEN <<Head(sorted)>> \o UnstableInsertByLen(Tail(sorted), m)
         ELSE <<m>> \o sorted

RECURSIVE UnstableSortFrom(_, _, _)
UnstableSortFrom(sorted, meshes, k) ==
    IF k > Len(meshes) THEN sorted
    ELSE UnstableSortFrom(UnstableInsertByLen(sorted, meshes[k]), meshes, k + 1)

UnstableSortByIndexCountDesc(meshes) == UnstableSortFrom(<<>>, meshes, 1)

\* Vec::sort_by with the reversed comparison of indices.len(), line 621: a
\* stable sort, so meshes of equal length keep their order.  A mesh goes
\* after every mesh already placed that is at least as long.
RECURSIVE InsertByLen(_, _)
InsertByLen(sorted, m) ==
    IF sorted = <<>> THEN <<m>>
    ELSE IF Len(Head(sorted).indices) >= Len(m.indices)
         THEN <<Head(sorted)>> \o InsertByLen(Tail(sorted), m)
         ELSE <<m>> \o sorted

RECURSIVE SortFrom(_, _, _)
SortFrom(sorted, meshes, k) ==
    IF k > Len(meshes) THEN sorted
    ELSE SortFrom(InsertByLen(sorted, meshes[k]), meshes, k + 1)

SortByIndexCountDesc(meshes) == SortFrom(<<>>, meshes, 1)

\* parse_obj_inner, lines 578-636
ParseObjInner(objects) ==
    LET all_meshes == SortByIndexCountDesc([k \in DOMAIN objects |-> BuildMesh(objects[k])])
    IN IF Len(all_meshes) <= 0
       THEN [status |-> "MeshConvertError", mesh |-> EmptyMesh]
       ELSE [status |-> "Ok", mesh |-> all_meshes[1]]

NumShapes(object) ==
    LET RECURSIVE Sum(_)
        Sum(k) == IF k > Len(object.geometry) THEN 0
                  ELSE Len(object.geometry[k]) + Sum(k + 1)
    IN Sum(1)

RECURSIVE TotalShapes(_, _)
TotalShapes(objects, k) ==
    IF k > Len(objects) THEN 0 ELSE NumShapes(objects[k]) + TotalShapes(objects, k + 1)

ObjInit ==
    /\ obj = <<>>
    /\ o_pc = "build"
    /\ o_result = [status |-> "none", mesh |-> EmptyMesh]

\* The file gains an object ("o name") with its vertex table.
ObjAddObject ==
    /\ o_pc = "build"
    /\ Len(obj) < MaxObjects
    /\ \E vt \in VertexTables :
          obj' = Append(obj, [vertices |-> vt, geometry |-> <<>>])
    /\ UNCHANGED <<o_pc, o_result>>

\* The last object gains a geometry section ("usemtl").
ObjAddGeometry ==
    /\ o_pc = "build"
    /\ obj # <<>>
    /\ Len(obj[Len(obj)].geometry) < MaxGeometries
    /\ obj' = [obj EXCEPT ![Len(obj)].geometry = Append(@, <<>>)]
    /\ UNCHANGED <<o_pc, o_result>>

\* The last geometry of the last object gains a shape ("f", "l").
ObjAddShape ==
    /\ o_pc = "build"
    /\ obj # <<>>
    /\ obj[Len(obj)].geometry # <<>>
    /\ TotalShapes(obj, 1) < MaxShapes
    /\ \E sh \in Shapes :
          obj' = [obj EXCEPT ![Len(obj)].geometry[Len(obj[Len(obj)].geometry)]
                                 = Append(@, sh)]
    /\ UNCHANGED <<o_pc, o_result>>

\* parse_obj_inner runs on the file read.
ObjParse ==
    /\ o_pc = "build"
    /\ o_pc' = "done"
    /\ o_result' = ParseObjInner(obj)
    /\ UNCHANGED obj

ObjIdle == ObjInit

Drawn(es) == { i \in DOMAIN es : es[i].use_line }

\* C29: while the scan runs and when it ends without error, every anchor of
\* the point list is followed at once by a drawn point, the unsafe flag is
\* false after an extrusion move, and the tubes are as many as the drawn
\* points, less one when the first point is drawn.
C29_AnchorsPrecedeDrawnPoints ==
    g_result \in {"none", "Ok"} =>
        /\ \A i \in DOMAIN entries :
              ~entries[i].use_line => i < Len(entries) /\ entries[i + 1].use_line
        /\ (h_input # <<>> /\ IsExtrusion(LastLine)) => ~position_unsafe
        /\ g_result = "Ok" =>
              Len(tubes) = Cardinality(Drawn(entries))
                              - (IF entries[1].use_line THEN 1 ELSE 0)

C29_Witness ==
    /\ g_result = "Ok"
    /\ entries[1].use_line
    /\ \E i \in DOMAIN entries : ~entries[i].use_line
    /\ IsExtrusion(LastLine)
    /\ Len(tubes) >= 2

\* ========================================================================
\* Claims about parse_obj_inner
\* ========================================================================
\* The number of triangle indices the file gives a group: 3 per triangle.
RECURSIVE TriangleIndexCount(_, _, _)
TriangleIndexCount(object, g, k) ==
    IF g > Len(object.geometry) THEN 0
    ELSE IF k > Len(object.geometry[g]) THEN TriangleIndexCount(object, g + 1, 1)
    ELSE (IF object.geometry[g][k].primitive = "Triangle" THEN 3 ELSE 0)
         + TriangleIndexCount(object, g, k + 1)

IndexCount(k) == TriangleIndexCount(obj[k], 1, 1)

\* The first group among those with the greatest triangle-index count.
Dominant ==
    CHOOSE k \in DOMAIN obj :
        /\ \A j \in DOMAIN obj : IndexCount(j) <= IndexCount(k)
        /\ \A j \in DOMAIN obj : IndexCount(j) = IndexCount(k) => k <= j

\* C9: the mesh returned is that of the group with the greatest
\* triangle-index count, the first-encountered one among equals.
C9_DominantGroupFirstOnTie ==
    (o_pc = "done" /\ obj # <<>>) =>
        /\ o_result.status = "Ok"
        /\ o_result.mesh = BuildMesh(obj[Dominant])

\* C9 witness: a smaller group first, then two groups with the greatest count
\* and different meshes; the earlier of the two was returned.
C9_Witness ==
    /\ o_pc = "done" /\ Len(obj) = 3
    /\ IndexCount(1) < IndexCount(2)
    /\ IndexCount(2) = IndexCount(3)
    /\ BuildMesh(obj[2]) # BuildMesh(obj[3])
    /\ o_result.mesh = BuildMesh(obj[2])

\* C10: the parse fails with MeshConvertError when the file has no group or
\* when no group has a triangle.
C10_EmptyGroupsFail ==
    (o_pc = "done" /\ \A k \in DOMAIN obj : IndexCount(k) = 0) =>
        o_result.status = "MeshConvertError"

\* The source vertex indices a group's triangles reference, in file order.
RECURSIVE ReferencedFrom(_, _, _)
ReferencedFrom(object, g, k) ==
    IF g > Len(object.geometry) THEN <<>>
    ELSE IF k > Len(object.geometry[g]) THEN ReferencedFrom(object, g + 1, 1)
    ELSE (IF object.geometry[g][k].primitive = "Triangle"
          THEN object.geometry[g][k].v ELSE <<>>)
         \o ReferencedFrom(object, g, k + 1)

Referenced(object) == ReferencedFrom(object, 1, 1)

\* A sequence without its repetitions, in order of first occurrence.
RECURSIVE FirstUses(_, _)
FirstUses(seq, k) ==
    IF k > Len(seq) THEN <<>>
    ELSE (IF \E j \in 1..(k - 1) : seq[j] = seq[k] THEN <<>> ELSE <<seq[k]>>)
         \o FirstUses(seq, k + 1)

\* C11: the vertex array of each group holds every source vertex its
\* triangles reference exactly once, in order of first use, and nothing else,
\* and every emitted index points at the vertex it was read from, also when
\* the group has several geometry sections that share a source vertex.
C11_VerticesDeduplicatedPerGroup ==
    o_pc = "done" =>
        \A k \in DOMAIN obj :
            LET mesh == BuildMesh(obj[k])
                refs == Referenced(obj[k])
                uses == FirstUses(refs, 1)
            IN /\ mesh.positions = [n \in DOMAIN uses |-> obj[k].vertices[uses[n] + 1]]
               /\ Len(mesh.indices) = Len(refs)
               /\ \A j \in DOMAIN refs :
                     mesh.positions[mesh.indices[j] + 1] = obj[k].vertices[refs[j] + 1]

\* ========================================================================
\* extract_extruder_colors_from_3mf
\* ========================================================================

\* Entries of the "; extruder_colour =" line, each as its text after trim()
\* and trim_start_matches('#').
EntryBlue == <<0, 0, 0, 0, 15, 15>>                                \* "#0000FF"
EntryGreen == <<0, 0, 15, 15, 0, 0>>                               \* "#00FF00"
EntryEmpty == <<>>                                                 \* ""
EntryNotHex == <<16, 16, 0, 0, 0, 0>>                              \* "#GG0000"
EntrySigned == <<PlusSign, 15, PlusSign, 15, PlusSign, 15>>        \* "#+F+F+F"
EntryTwoByte == <<10, LeadByte, ContByte, 1, 2, 3>>                \* "#aé123"

ColorEntries ==
    {EntryBlue, EntryGreen, EntryEmpty, EntryNotHex, EntrySigned, EntryTwoByte}

\* The loop over color_strs, lines 293-299: the table after the entries from k
\* on, and whether parse_hex_color_to_srgba panicked on one of them.
RECURSIVE ColorsFrom(_, _, _)
ColorsFrom(color_strs, k, colors) ==
    IF k > Len(color_strs) THEN [colors |-> colors, panic |-> FALSE]
    ELSE IF HexSlicePanics(color_strs[k]) THEN [colors |-> <<>>, panic |-> TRUE]
    ELSE LET color == ParseHexColorToSrgba(color_strs[k])
         IN ColorsFrom(color_strs, k + 1,
                       IF IsSome(color) THEN Append(colors, Unwrap(color))
                       ELSE colors)

\* extract_extruder_colors_from_3mf: line is None when the archive has no
\* Metadata/Slic3r_PE.config or that stream has no "; extruder_colour =" line.
ExtractExtruderColors(line) ==
    IF IsSome(line) THEN ColorsFrom(Unwrap(line), 1, <<>>)
    ELSE [colors |-> <<>>, panic |-> FALSE]

ColorsIdle == color_line = None /\ c_pc = "idle" /\ c_panic = FALSE

ColorsInit == color_line = None /\ c_pc = "build" /\ c_panic = FALSE

\* The line gets one more ';'-separated entry.
ColAddEntry ==
    /\ c_pc = "build"
    /\ Len(IF IsSome(color_line) THEN Unwrap(color_line) ELSE <<>>) < MaxColorEntries
    /\ \E entry \in ColorEntries :
          color_line' = Some(Append(IF IsSome(color_line) THEN Unwrap(color_line)
                                    ELSE <<>>, entry))
    /\ UNCHANGED <<extruder_colors, c_pc, c_panic>>

ColExtract ==
    /\ c_pc = "build"
    /\ LET r == ExtractExtruderColors(color_line)
       IN extruder_colors' = r.colors /\ c_panic' = r.panic
    /\ c_pc' = "done"
    /\ UNCHANGED color_line

\* "#RRGGBB": six hex digits after the '#'.
WellFormedEntry(entry) == Len(entry) = 6 /\ \A i \in 1..6 : entry[i] <= 15
ColorOfEntry(entry) ==
    <<16 * entry[1] + entry[2], 16 * entry[3] + entry[4], 16 * entry[5] + entry[6]>>

\* C18: the table is empty when the stream or the line is absent, and the
\* k-th entry of the list, when it is a well-formed color, is the color of
\* extruder k (table index k - 1), whatever the other entries are.
C18_TableIndexedByExtruder ==
    (c_pc = "done" /\ ~c_panic) =>
        /\ color_line = None => extruder_colors = <<>>
        /\ IsSome(color_line) =>
              \A k \in DOMAIN Unwrap(color_line) :
                  WellFormedEntry(Unwrap(color_line)[k]) =>
                      /\ k <= Len(extruder_colors)
                      /\ extruder_colors[k] = ColorOfEntry(Unwrap(color_line)[k])

\* ========================================================================
\* parse_3mf
\* ========================================================================

\* usize::MAX, scaled down: triangle ids and counts are 0..UsizeMax.
UsizeMax == 7

\* a + b and a - b on usize: the value when the result wraps, and whether it
\* overflowed (a panic when the build checks overflow, a wrap otherwise).
WrappingAdd(a, b) == (a + b) % (UsizeMax + 1)
AddOverflows(a, b) == a + b > UsizeMax
WrappingSub(a, b) == (a - b + UsizeMax + 1) % (UsizeMax + 1)
SubOverflows(a, b) == b > a

\* Iterator::skip and Iterator::take
Skip(seq, n) == IF n >= Len(seq) THEN <<>> ELSE SubSeq(seq, n + 1, Len(seq))
Take(seq, n) == IF n >= Len(seq) THEN seq ELSE SubSeq(seq, 1, n)

\* flat_map(|a| [a.v1 as u32, a.v2 as u32, a.v3 as u32])
RECURSIVE FlatIndices(_)
FlatIndices(triangles) ==
    IF triangles = <<>> THEN <<>>
    ELSE Head(triangles) \o FlatIndices(Tail(triangles))

\* Mat4::identity() and Mat4::from_cols of the twelve numbers of a transform
Identity == << <<1, 0, 0, 0>>, <<0, 1, 0, 0>>, <<0, 0, 1, 0>>, <<0, 0, 0, 1>> >>
FromCols(t) ==
    << <<t[1], t[2], t[3], 0>>, <<t[4], t[5], t[6], 0>>,
       <<t[7], t[8], t[9], 0>>, <<t[10], t[11], t[12], 1>> >>
TransformOf(item) ==
    IF IsSome(item.transform) THEN FromCols(Unwrap(item.transform)) ELSE Identity

\* MeshWithTransform { mesh: CpuMesh { positions, indices }, transform, color }
Part(positions, indices, transform, color) ==
    [positions |-> positions, indices |-> indices, transform |-> transform,
     color |-> color]

\* The whole mesh as one part, lines 210-236 and 245-269
WholePart(mesh, transform) ==
    Part(mesh.vertices, FlatIndices(mesh.triangles), transform, None)

\* The loop over vol_list, lines 168-207: the parts pushed from the k-th
\* volume on, the ranges that reached the take() of line 189, and whether an
\* overflow check panicked.
RECURSIVE SplitVolumes(_, _, _, _, _, _)
SplitVolumes(mesh, vol_list, k, transform, parts, used) ==
    IF k > Len(vol_list) THEN [parts |-> parts, used |-> used, panic |-> FALSE]
    ELSE LET vol == vol_list[k]
             start_tri == vol.first_triangle_id
             end_tri == WrappingAdd(vol.last_triangle_id, 1)
             range == <<vol.first_triangle_id, vol.last_triangle_id>>
         IN IF AddOverflows(vol.last_triangle_id, 1) /\ overflow_checks
            THEN [parts |-> parts, used |-> used, panic |-> TRUE]
            ELSE IF end_tri <= Len(mesh.triangles)
            THEN IF SubOverflows(end_tri, start_tri) /\ overflow_checks
                 THEN [parts |-> parts, used |-> used \cup {range}, panic |-> TRUE]
                 ELSE SplitVolumes(mesh, vol_list, k + 1, transform,
                          Append(parts,
                              Part(mesh.vertices,
                                   FlatIndices(Take(Skip(mesh.triangles, start_tri),
                                                    WrappingSub(end_tri, start_tri))),
                                   transform, vol.color)),
                          used \cup {range})
            ELSE SplitVolumes(mesh, vol_list, k + 1, transform, parts, used)

\* ---- the decoded model graph (the input) ----
\* The objects of all models of the package in the order of the two loops of
\* lines 131-132; ids are unique within a model file only.
Object(id, mesh) == [id |-> id, mesh |-> mesh]
Item(objectid, transform) == [objectid |-> objectid, transform |-> transform]
Mesh3mf(vertices, triangles) == [vertices |-> vertices, triangles |-> triangles]

Tetrahedron ==
    Mesh3mf(<< <<0, 0, 0>>, <<1, 0, 0>>, <<0, 1, 0>>, <<0, 0, 1>> >>,
            << <<0, 1, 2>>, <<0, 2, 3>>, <<1, 2, 3>> >>)
OneTriangle ==
    Mesh3mf(<< <<0, 0, 0>>, <<2, 0, 0>>, <<0, 2, 0>> >>, << <<0, 1, 2>> >>)
\* a triangle that names a vertex the mesh does not have
DanglingTriangle ==
    Mesh3mf(<< <<0, 0, 0>>, <<2, 0, 0>>, <<0, 2, 0>> >>, << <<0, 1, 5>> >>)

Moved == <<1, 0, 0, 0, 1, 0, 0, 0, 1, 5, 6, 7>>   \* a translation by (5, 6, 7)

Graph(objects, items) == [objects |-> objects, items |-> items]
Graphs ==
    { Graph(<<Object(1, Some(Tetrahedron))>>, <<Item(1, Some(Moved))>>),
      Graph(<<Object(1, Some(Tetrahedron))>>, <<>>),
      Graph(<<Object(2, None)>>, <<Item(2, None)>>),
      Graph(<<Object(1, Some(Tetrahedron)), Object(2, Some(OneTriangle))>>,
            <<Item(1, None), Item(2, Some(Moved))>>),
      Graph(<<Object(1, Some(Tetrahedron)), Object(2, None)>>, <<Item(2, None)>>),
      Graph(<<Object(1, Some(DanglingTriangle))>>, <<Item(1, None)>>),
      \* two model files of one package, each with its own object 1
      Graph(<<Object(1, Some(Tetrahedron)), Object(1, Some(OneTriangle))>>, <<>>) }

\* The lines Metadata/Slic3r_PE_model.config is made of.
ConfigLines ==
    { VLine(Some(Digits(1)), None, None, None, None, FALSE),   \* <object id="1"
      VLine(None, None, Some(<<Digits(0), Digits(0)>>), None, None, FALSE),
      VLine(None, None, Some(<<Digits(1), Digits(2)>>), None, None, FALSE),
      VLine(None, None, Some(<<Digits(1), Digits(5)>>), None, None, FALSE),
      VLine(None, None, Some(<<Digits(2), Digits(0)>>), None, None, FALSE),
      VLine(None, None, Some(<<Digits(0), Digits(UsizeMax)>>), None, None, FALSE),
      VLine(None, None, None, None, Some(ColorRed), FALSE),    \* volume color
      VLine(None, None, None, None, None, TRUE) }              \* </volume>

\* The "; extruder_colour =" line of Metadata/Slic3r_PE.config: absent, one
\* color, a color and an entry that is not ASCII.
ColorLines == { None, Some(<<EntryBlue>>), Some(<<EntryBlue, EntryTwoByte>>) }

MfRest ==
    /\ mf_objects = <<>>
    /\ mf_items = <<>>
    /\ object_map = <<>>
    /\ result_meshes = <<>>
    /\ mf_next = 1
    /\ mf_pc = "idle"
    /\ mf_result = "none"
    /\ h_used = {}

MfIdle == overflow_checks = FALSE /\ MfRest

\* After threemf::read: the model graph is decoded, nothing else is read yet.
\* overflow_checks is the build's choice (debug-assertions / overflow-checks).
MfInit ==
    /\ overflow_checks \in BOOLEAN
    /\ \E g \in Graphs : mf_objects = g.objects /\ mf_items = g.items
    /\ object_map = <<>>
    /\ result_meshes = <<>>
    /\ mf_next = 1
    /\ mf_pc = "colors"
    /\ mf_result = "none"
    /\ h_used = {}

mfInputs == <<overflow_checks, mf_objects, mf_items>>

\* line 123
MfExtractColors ==
    /\ mf_pc = "colors"
    /\ LET r == ExtractExtruderColors(color_line)
       IN /\ extruder_colors' = r.colors
          /\ c_panic' = r.panic
          /\ mf_pc' = IF r.panic THEN "done" ELSE "volumes"
          /\ mf_result' = IF r.panic THEN "Panic" ELSE mf_result
    /\ UNCHANGED <<scanVars, color_line, c_pc, mfInputs, object_map, result_meshes,
                   mf_next, h_used>>

\* line 126, one line of the stream through parse_slic3r_volumes
MfReadConfigLine ==
    /\ mf_pc = "volumes"
    /\ v_lines < MaxConfigLines
    /\ \E line \in ConfigLines : SetVolState(ScanVolumeLine(VolState, line))
    /\ v_lines' = v_lines + 1
    /\ UNCHANGED <<extruder_colors, v_pc, colorVars, mfInputs, object_map,
                   result_meshes, mf_next, mf_pc, mf_result, h_used>>

\* line 126, the end of the stream (at once when the archive has no
\* Metadata/Slic3r_PE_model.config)
MfConfigEnd ==
    /\ mf_pc = "volumes"
    /\ SetVolState(SaveObject(VolState))
    /\ v_pc' = "done"
    /\ mf_pc' = "map"
    /\ UNCHANGED <<extruder_colors, v_lines, colorVars, mfInputs, object_map,
                   result_meshes, mf_next, mf_result, h_used>>

\* lines 129-137
RECURSIVE ObjectMapFrom(_, _, _)
ObjectMapFrom(objects, k, map) ==
    IF k > Len(objects) THEN map
    ELSE ObjectMapFrom(objects, k + 1,
                       IF IsSome(objects[k].mesh)
                       THEN MapInsert(map, objects[k].id, Unwrap(objects[k].mesh))
                       ELSE map)

\* lines 129-145
MfObjectMap ==
    /\ mf_pc = "map"
    /\ object_map' = ObjectMapFrom(mf_objects, 1, <<>>)
    /\ IF DOMAIN object_map' = {}
       THEN mf_result' = "MeshConvertError" /\ mf_pc' = "done"
       ELSE mf_result' = mf_result /\ mf_pc' = "items"
    /\ UNCHANGED <<volVars, colorVars, mfInputs, result_meshes, mf_next, h_used>>

\* One iteration of the loop over build.item, lines 149-239
MfBuildItem ==
    /\ mf_pc = "items"
    /\ mf_next <= Len(mf_items)
    /\ LET item == mf_items[mf_next]
       IN IF item.objectid \in DOMAIN object_map
          THEN LET mesh == object_map[item.objectid]
                   transform == TransformOf(item)
               IN IF item.objectid \in DOMAIN object_volumes
                  THEN LET r == SplitVolumes(mesh, object_volumes[item.objectid], 1,
                                             transform, result_meshes, h_used)
                       IN /\ result_meshes' = r.parts
                          /\ h_used' = r.used
                          /\ mf_pc' = IF r.panic THEN "done" ELSE mf_pc
                          /\ mf_result' = IF r.panic THEN "Panic" ELSE mf_result
                  ELSE /\ result_meshes' = Append(result_meshes,
                                                  WholePart(mesh, transform))
                       /\ UNCHANGED <<h_used, mf_pc, mf_result>>
          ELSE UNCHANGED <<result_meshes, h_used, mf_pc, mf_result>>
    /\ mf_next' = mf_next + 1
    /\ UNCHANGED <<volVars, colorVars, mfInputs, object_map>>

\* The orders object_map.iter() can visit the map in.
Orders(map) ==
    { order \in [1..Cardinality(DOMAIN map) -> DOMAIN map] :
        \A i, j \in DOMAIN order : i # j => order[i] # order[j] }

\* lines 242-273
MfFinish ==
    /\ mf_pc = "items"
    /\ mf_next > Len(mf_items)
    /\ IF result_meshes = <<>>
       THEN \E order \in Orders(object_map) :
               result_meshes' =
                   [n \in DOMAIN order |-> WholePart(object_map[order[n]], Identity)]
       ELSE result_meshes' = result_meshes
    /\ mf_result' = "Ok"
    /\ mf_pc' = "done"
    /\ UNCHANGED <<volVars, colorVars, mfInputs, object_map, mf_next, h_used>>

\* ========================================================================
\* Claims about parse_3mf
\* ========================================================================

\* The triangles first..last inclusive of a mesh (none when last < first).
RangeTriangles(mesh, first, last) ==
    [i \in 1..(IF last >= first THEN last - first + 1 ELSE 0) |->
        mesh.triangles[first + i]]

\* One part per range whose last triangle exists, from the k-th range on.
RECURSIVE RangeParts(_, _, _, _)
RangeParts(mesh, vol_list, k, transform) ==
    IF k > Len(vol_list) THEN <<>>
    ELSE (IF vol_list[k].last_triangle_id < Len(mesh.triangles)
          THEN <<Part(mesh.vertices,
                      FlatIndices(RangeTriangles(mesh, vol_list[k].first_triangle_id,
                                                 vol_list[k].last_triangle_id)),
                      transform, vol_list[k].color)>>
          ELSE <<>>)
         \o RangeParts(mesh, vol_list, k + 1, transform)

\* The ranges follow one another and cover the triangles 0..count-1.
Contiguous(vol_list, count) ==
    /\ vol_list # <<>>
    /\ vol_list[1].first_triangle_id = 0
    /\ vol_list[Len(vol_list)].last_triangle_id = count - 1
    /\ \A k \in DOMAIN vol_list :
          /\ vol_list[k].first_triangle_id <= vol_list[k].last_triangle_id
          /\ k > 1 => vol_list[k].first_triangle_id
                          = vol_list[k - 1].last_triangle_id + 1

TrianglesOf(indices) ==
    { <<indices[3 * i - 2], indices[3 * i - 1], indices[3 * i]>> :
        i \in 1..(Len(indices) \div 3) }

Range(seq) == { seq[i] : i \in DOMAIN seq }

\* The first build item places an object that has a mesh and volume ranges.
FirstItemHasVolumes ==
    /\ mf_items # <<>>
    /\ mf_items[1].objectid \in DOMAIN object_map
    /\ mf_items[1].objectid \in DOMAIN object_volumes

\* C12: for a build item whose object has volume ranges, the parts emitted
\* for it are, range by range, the triangles first..last inclusive over the
\* whole vertex array, with the range's color and the item's transform; when
\* the ranges are contiguous and cover the mesh, the parts' triangles together
\* are the mesh's triangles.
C12_PartIsRangeSubsequence ==
    (mf_pc = "done" /\ mf_result = "Ok" /\ FirstItemHasVolumes) =>
        LET mesh == object_map[mf_items[1].objectid]
            vol_list == object_volumes[mf_items[1].objectid]
            expected == RangeParts(mesh, vol_list, 1, TransformOf(mf_items[1]))
        IN expected # <<>> =>
              /\ Len(result_meshes) >= Len(expected)
              /\ SubSeq(result_meshes, 1, Len(expected)) = expected
              /\ Contiguous(vol_list, Len(mesh.triangles)) =>
                    UNION { TrianglesOf(result_meshes[n].indices) :
                              n \in 1..Len(expected) } = Range(mesh.triangles)

OutOfRange(mesh, vol) == vol.last_triangle_id >= Len(mesh.triangles)

\* C13: a range whose last triangle lies beyond the mesh's triangle count is
\* dropped: the parse succeeds, no part is emitted for that range, and the
\* in-range ranges of the same object are emitted.
C13_OutOfRangeDropped ==
    (/\ mf_pc = "done"
     /\ FirstItemHasVolumes
     /\ Len(mf_items) = 1) =>
        LET mesh == object_map[mf_items[1].objectid]
            vol_list == object_volumes[mf_items[1].objectid]
            expected == RangeParts(mesh, vol_list, 1, TransformOf(mf_items[1]))
        IN (/\ \E k \in DOMAIN vol_list : OutOfRange(mesh, vol_list[k])
            /\ \A k \in DOMAIN vol_list :
                  vol_list[k].first_triangle_id <= vol_list[k].last_triangle_id) =>
              /\ mf_result = "Ok"
              /\ expected # <<>> => result_meshes = expected

\* C14: every range that is recorded, and every range that reaches the
\* computation of the triangle subsequence, has last >= first.
C14_RangesAreOrdered ==
    /\ \A id \in DOMAIN object_volumes :
          \A k \in DOMAIN object_volumes[id] :
              object_volumes[id][k].last_triangle_id
                  >= object_volumes[id][k].first_triangle_id
    /\ \A range \in h_used : range[2] >= range[1]

WithMesh == { k \in DOMAIN mf_objects : IsSome(mf_objects[k].mesh) }

\* C15: a parse that returns Ok for a graph where an object owns a mesh
\* returns at least one part, and when the build list produced no part it
\* returns exactly one whole, identity-transformed, uncolored part per object
\* that owns a mesh.
C15_FallbackOnePartPerObject ==
    [][(mf_pc = "items" /\ mf_result' = "Ok") =>
          /\ Len(result_meshes') >= 1
          /\ result_meshes = <<>> =>
                /\ Len(result_meshes') = Cardinality(WithMesh)
                /\ \A k \in WithMesh :
                      \E n \in DOMAIN result_meshes' :
                          result_meshes'[n]
                              = WholePart(Unwrap(mf_objects[k].mesh), Identity)]_vars

\* C16: when no object of the graph owns a mesh the parse ends with
\* MeshConvertError, whatever the build list and the two metadata streams hold.
C16_NoMeshIsMeshConvertError ==
    (mf_pc = "done" /\ WithMesh = {}) => mf_result = "MeshConvertError"

\* C17: the outcome depends on the model graph only, never on the two
\* metadata streams: MeshConvertError when no object owns a mesh, Ok
\* otherwise; and without the streams every part is uncolored.
C17_MetadataNeverFailsTheParse ==
    mf_pc = "done" =>
        /\ mf_result = IF WithMesh = {} THEN "MeshConvertError" ELSE "Ok"
        /\ (color_line = None /\ v_lines = 0) =>
              \A n \in DOMAIN result_meshes : result_meshes[n].color = None

\* The Mesh invariant: triangles only, each index names a vertex.
MeshInvariant(part) ==
    /\ Len(part.indices) % 3 = 0
    /\ \A i \in DOMAIN part.indices : part.indices[i] < Len(part.positions)

\* C20: every part a parse returns satisfies the Mesh invariant.
C20_PartsSatisfyMeshInvariant ==
    (mf_pc = "done" /\ mf_result = "Ok") =>
        \A n \in DOMAIN result_meshes : MeshInvariant(result_meshes[n])

\* ========================================================================
\* parse_file and generate_thumbnail_for_file_with_context
\* ========================================================================

\* A text is the sequence of its characters.
Stl == <<".", "s", "t", "l">>
ThreeMf == <<".", "3", "m", "f">>
Obj == <<".", "o", "b", "j">>
Gcode == <<".", "g", "c", "o", "d", "e">>
Zip == <<".", "z", "i", "p">>

\* The pieces file names are built from.
Segments ==
    { <<"a">>, <<"s", "t", "l">>, Stl, <<".", "S", "T", "L">>, ThreeMf, Obj, Gcode,
      Zip, <<".", "x", "y", "z">> }

\* A comparison that does not tell upper case from lower case.
Lower(char) ==
    IF char = "S" THEN "s" ELSE IF char = "T" THEN "t"
    ELSE IF char = "L" THEN "l" ELSE char
EndsWithIgnoringCase(text, suffix) ==
    /\ Len(text) >= Len(suffix)
    /\ \A i \in 1..Len(suffix) :
          Lower(text[Len(text) - Len(suffix) + i]) = suffix[i]

\* The smallest number of images whose last index has three digits.
OverHundred == 101

\* str::ends_with
EndsWith(text, suffix) ==
    /\ Len(text) >= Len(suffix)
    /\ \A i \in 1..Len(suffix) : text[Len(text) - Len(suffix) + i] = suffix[i]

\* The reader parse_file calls for a path, "unknown" when it returns
\* Err(ParseError("Unknown file type")).
ParseFile(path) ==
    IF EndsWith(path, Stl) THEN "stl"
    ELSE IF EndsWith(path, ThreeMf) THEN "3mf"
    ELSE IF EndsWith(path, Stl \o Zip) THEN "stl.zip"
    ELSE IF EndsWith(path, Obj) THEN "obj"
    ELSE IF EndsWith(path, Obj \o Zip) THEN "obj.zip"
    ELSE IF EndsWith(path, Gcode) THEN "gcode"
    ELSE IF EndsWith(path, Gcode \o Zip) THEN "gcode.zip"
    ELSE "unknown"

\* Path::extension of a file name: the text after the last '.', nothing when
\* there is no '.' or the only one starts the name.
LastDot(filename) ==
    IF \E i \in DOMAIN filename : filename[i] = "."
    THEN CHOOSE i \in DOMAIN filename :
            /\ filename[i] = "."
            /\ \A j \in (i + 1)..Len(filename) : filename[j] # "."
    ELSE 0
Extension(filename) ==
    IF LastDot(filename) <= 1 /\ ~\E i \in 2..Len(filename) : filename[i] = "."
    THEN <<>>
    ELSE SubSeq(filename, LastDot(filename) + 1, Len(filename))

\* lines 312-327
ImageExtension(filename) ==
    IF EndsWith(filename, Gcode \o Zip) THEN Tail(Gcode \o Zip)
    ELSE IF EndsWith(filename, Obj \o Zip) THEN Tail(Obj \o Zip)
    ELSE IF EndsWith(filename, Stl \o Zip) THEN Tail(Stl \o Zip)
    ELSE Extension(filename)

\* lines 329-333, for the format "png"
FilenameImage(filename) ==
    SubSeq(filename, 1, Len(filename) - Len(ImageExtension(filename)))
        \o <<"p", "n", "g">>

\* Path::file_stem of an image name: the name without '.' and extension
FileStem(name) ==
    IF Extension(name) = <<>> THEN name
    ELSE SubSeq(name, 1, Len(name) - Len(Extension(name)) - 1)

\* format!("{:02}", iter): the decimal digits, zero-padded to two
DigitChars == <<"0", "1", "2", "3", "4", "5", "6", "7", "8", "9">>
RECURSIVE Decimal(_)
Decimal(n) ==
    IF n < 10 THEN <<DigitChars[n + 1]>>
    ELSE Decimal(n \div 10) \o <<DigitChars[(n % 10) + 1]>>
Format02(n) == IF n < 10 THEN <<"0">> \o Decimal(n) ELSE Decimal(n)

\* lines 454-461 with replace_file_stem: the name of image iter of several
IndexedName(image_path, iter) ==
    LET new_name == FileStem(image_path) \o <<"-">> \o Format02(iter)
    IN IF Extension(image_path) # <<>> THEN new_name \o <<".">> \o Extension(image_path)
       ELSE new_name

\* The count normalised, the caller's azimuth kept.
NormalizeKeepingAzimuth(o) ==
    [o EXCEPT !.images_per_file = IF @ < 1 THEN 1 ELSE @]

\* generate_thumbnail_for_file, lines 114-122
NormalizeOptions(o) ==
    LET count == IF o.images_per_file < 1 THEN 1 ELSE o.images_per_file
    IN [o EXCEPT !.images_per_file = count,
                 !.rotatex = IF count > 1 /\ o.rotatex # 0 THEN 0 ELSE o.rotatex]

\* generate_thumbnail_bytes_for_file, lines 255-256
BytesOptions(o) == [o EXCEPT !.images_per_file = 1]

\* What a call did: its Result ("Ok", or the ThumbnailError variant), the
\* parse error the Err carries, the reader parse_file chose ("none" when it
\* was not called), whether an image file was written, the files written in
\* order (a name, its index when it has one, whether the write was complete),
\* the azimuth of each render as <<numerator, denominator>> degrees, and the
\* calls made in order.
Outcome(result, reader, written) ==
    [result |-> result, error |-> "none", reader |-> reader, written |-> written,
     files |-> <<>>, views |-> <<>>, log |-> <<>>]

File(name, index, complete) == [name |-> name, index |-> index, complete |-> complete]

\* render_model with build_models inside the loop.
RenderModelRebuilding(image_path, o) ==
    LET count == o.images_per_file
    IN [files |-> [k \in 1..count |->
                      File(IF count > 1 THEN IndexedName(image_path, k - 1)
                           ELSE image_path,
                           IF count > 1 THEN Some(k - 1) ELSE None, TRUE)],
        views |-> [k \in 1..count |-> <<o.rotatex * count + 360 * (k - 1), count>>],
        log |-> [j \in 1..(5 * count) |->
                    <<"build_models", "aabb", "place", "render", "save">>[((j - 1) % 5) + 1]]]

\* render_model, lines 446-481: count renders, each saved under its own name
RenderModel(image_path, o) ==
    LET count == o.images_per_file
    IN [files |-> [k \in 1..count |->
                      File(IF count > 1 THEN IndexedName(image_path, k - 1) ELSE image_path,
                           IF count > 1 THEN Some(k - 1) ELSE None, TRUE)],
        views |-> [k \in 1..count |-> <<o.rotatex * count + 360 * (k - 1), count>>],
        log |-> <<"build_models">>
                \o [j \in 1..(4 * count) |->
                       <<"aabb", "place", "render", "save">>[((j - 1) % 4) + 1]]]

\* extract_image_from_3mf and extract_image_from_gcode_*: env.extract is
\* "ok", "failed" (no thumbnail could be loaded, nothing is written) or
\* "partial" (save() created the file and failed).
Extracted(env, image_path) ==
    IF env.extract = "failed" THEN <<>>
    ELSE <<File(image_path, None, env.extract = "ok")>>

\* The fallback of lines 400-419, without the test of prefer_3mf_thumbnail.
FallbackAlways(filename, o) ==
    o.fallback_3mf_thumbnail /\ EndsWith(filename, ThreeMf)

\* lines 401-403 and 233-235
Fallback(filename, o) ==
    o.fallback_3mf_thumbnail /\ EndsWith(filename, ThreeMf) /\ ~o.prefer_3mf_thumbnail

\* An Err that carries the fallback's own error.
FallbackFailure(error) == "fallback"

\* Err(ThumbnailError::Parse(e.to_string())), lines 413 and 246
GeometryFailure(error) == error

\* lines 375-420: parse_file and what follows it, after the calls of pre
ParseAndRender(filename, o, env, pre) ==
    LET reader == ParseFile(filename)
        parsed == IF reader = "unknown" THEN "ParseError" ELSE env.parse
        image_path == FilenameImage(filename)
        sofar == [pre EXCEPT !.reader = reader, !.log = @ \o <<"parse">>]
    IN IF parsed = "Ok"
       THEN LET r == RenderModel(image_path, o)
            IN [sofar EXCEPT !.result = "Ok",
                             !.files = @ \o r.files,
                             !.views = r.views,
                             !.log = @ \o r.log,
                             !.written = TRUE]
       ELSE IF Fallback(filename, o)
       THEN LET done == [sofar EXCEPT !.files = @ \o Extracted(env, image_path),
                                      !.log = @ \o <<"extract_3mf">>,
                                      !.written = @ \/ env.extract # "failed"]
            IN IF env.extract = "ok" THEN [done EXCEPT !.result = "Ok"]
               ELSE [done EXCEPT !.result = "Parse",
                                 !.error = GeometryFailure(parsed)]
       ELSE [sofar EXCEPT !.result = "Parse", !.error = GeometryFailure(parsed)]

\* generate_thumbnail_for_file_with_context on a file name, under the options
\* o, with what the file system and the readers answer in env: whether the
\* image and the indexed images exist, how the extraction of an embedded
\* thumbnail ends, how the selected reader ends.
GenerateThumbnail(filename, o, env) ==
    LET image_path == FilenameImage(filename)
        tried(call) == [Outcome("none", "none", env.extract # "failed") EXCEPT
                           !.files = Extracted(env, image_path), !.log = <<call>>]
    IN IF filename = <<>> THEN Outcome("Io", "none", FALSE)
       ELSE IF ~o.overwrite /\ env.image_exists THEN Outcome("Ok", "none", FALSE)
       ELSE IF o.prefer_3mf_thumbnail /\ EndsWith(filename, ThreeMf)
       THEN IF env.extract = "ok" THEN [tried("extract_3mf") EXCEPT !.result = "Ok"]
            ELSE ParseAndRender(filename, o, env, tried("extract_3mf"))
       ELSE IF /\ o.prefer_gcode_thumbnail
               /\ EndsWith(filename, Gcode) \/ EndsWith(filename, Gcode \o Zip)
       THEN IF env.extract = "ok" THEN [tried("extract_gcode") EXCEPT !.result = "Ok"]
            ELSE ParseAndRender(filename, o, env, tried("extract_gcode"))
       ELSE ParseAndRender(filename, o, env, Outcome("none", "none", FALSE))

\* generate_thumbnail_bytes_for_file_with_context, lines 172-248: the same
\* order of calls, the image returned as bytes and no file written
GenerateThumbnailBytes(filename, o, env) ==
    LET mem == [env EXCEPT !.extract = IF @ = "ok" THEN "ok" ELSE "failed"]
        r == GenerateThumbnail(filename, [o EXCEPT !.overwrite = TRUE], mem)
    IN [r EXCEPT !.files = <<>>, !.written = FALSE]

ImageCounts == (0..MaxImages) \cup {OverHundred}

Options ==
    [overwrite : BOOLEAN, prefer_3mf_thumbnail : BOOLEAN,
     prefer_gcode_thumbnail : BOOLEAN, fallback_3mf_thumbnail : BOOLEAN,
     images_per_file : ImageCounts, rotatex : {0, 90}]
Environments ==
    [image_exists : BOOLEAN, indexed_exist : BOOLEAN,
     extract : {"ok", "failed", "partial"},
     parse : {"Ok", "ReadError", "ParseError", "MeshConvertError"}]

\* One image, the caller's azimuth 0, no indexed image on disk.
PlainOptions == { o \in Options : o.images_per_file = 1 /\ o.rotatex = 0 }
PlainEnvironments ==
    { env \in Environments :
        /\ ~env.indexed_exist
        /\ env.extract # "partial"
        /\ env.parse \in {"Ok", "ParseError"} }

ThumbIdle ==
    /\ t_path = <<>>
    /\ t_pc = "idle"
    /\ t_outcome = Outcome("none", "none", FALSE)
    /\ t_image = <<>>

ThumbInit ==
    /\ t_path = <<>>
    /\ t_pc = "build"
    /\ t_outcome = Outcome("none", "none", FALSE)
    /\ t_image = <<>>

\* The file name gets one more piece.
PathAppend ==
    /\ t_pc = "build"
    /\ Len(t_path) < MaxPathLen
    /\ \E segment \in Segments :
          /\ Len(t_path) + Len(segment) <= MaxPathLen
          /\ t_path' = t_path \o segment
    /\ UNCHANGED <<t_pc, t_outcome, t_image>>

GenerateThumbnailForFile ==
    /\ t_pc = "build"
    /\ \E o \in PlainOptions, env \in PlainEnvironments :
          t_outcome' = GenerateThumbnail(t_path, NormalizeOptions(o), env)
    /\ t_image' = IF t_outcome'.written THEN FilenameImage(t_path) ELSE <<>>
    /\ t_pc' = "done"
    /\ UNCHANGED t_path

\* ---- claims ----
SupportedSuffixes ==
    { Stl, ThreeMf, Stl \o Zip, Obj, Obj \o Zip, Gcode, Gcode \o Zip }

\* The text is some prefix followed by the suffix.
HasSuffix(text, suffix) ==
    \E k \in 0..Len(text) : SubSeq(text, k + 1, Len(text)) = suffix

Supported(path) == \E suffix \in SupportedSuffixes : HasSuffix(path, suffix)

\* parse_file was called
Parsed == t_pc = "done" /\ t_outcome.reader # "none"

\* C19: parse_file selects a reader exactly when the path ends, letter case
\* included, with a supported suffix; for any other path the parse fails with
\* the unknown-file-type error and the run writes no image.
C19_UnknownSuffixFailsWithoutOutput ==
    Parsed =>
        /\ t_outcome.reader # "unknown" <=> Supported(t_path)
        /\ t_outcome.reader = "unknown" =>
              /\ t_outcome.result = "Parse"
              /\ ~t_outcome.written
              /\ t_image = <<>>

C19_Witness ==
    /\ Parsed
    /\ t_outcome.reader = "unknown"
    /\ HasSuffix(t_path, <<".", "S", "T", "L">>)
    /\ t_outcome.result = "Parse"

\* ========================================================================
\* generate_thumbnail_for_file and generate_thumbnail_bytes_for_file under
\* every combination of options, on one file of each kind
\* ========================================================================

\* The files the calls are made on.
GenerateFiles ==
    { <<"a">> \o Stl, <<"a">> \o ThreeMf, <<"a">> \o Gcode, <<"a">> \o Gcode \o Zip,
      <<"a">> \o Obj \o Zip, <<"a", ".", "x", "y", "z">> }

\* ThumbnailOptions::default(), lines 53-70
DefaultOptions ==
    [overwrite |-> FALSE, prefer_3mf_thumbnail |-> FALSE,
     prefer_gcode_thumbnail |-> FALSE, fallback_3mf_thumbnail |-> FALSE,
     images_per_file |-> 1, rotatex |-> 0]

\* An empty output directory, a file with a thumbnail and sound geometry.
QuietEnvironment ==
    [image_exists |-> FALSE, indexed_exist |-> FALSE, extract |-> "ok", parse |-> "Ok"]

CallIdle ==
    /\ call_file = <<>>
    /\ call_options = DefaultOptions
    /\ call_env = QuietEnvironment
    /\ call_kind = "idle"
    /\ call_outcome = Outcome("none", "none", FALSE)

CallInit ==
    /\ call_file \in GenerateFiles
    /\ call_options \in Options
    /\ call_env \in Environments
    /\ call_kind = "none"
    /\ call_outcome = Outcome("none", "none", FALSE)

\* generate_thumbnail_for_file, lines 109-161
CallGenerateThumbnailForFile ==
    /\ call_kind = "none"
    /\ call_kind' = "file"
    /\ call_outcome' = GenerateThumbnail(call_file, NormalizeOptions(call_options),
                                         call_env)
    /\ UNCHANGED <<call_file, call_options, call_env>>

\* generate_thumbnail_bytes_for_file, lines 251-294
CallGenerateThumbnailBytesForFile ==
    /\ call_kind = "none"
    /\ call_kind' = "bytes"
    /\ call_outcome' = GenerateThumbnailBytes(call_file, BytesOptions(call_options),
                                              call_env)
    /\ UNCHANGED <<call_file, call_options, call_env>>

\* ---- claims ----
FileCall == call_kind = "file"
AnyCall == call_kind \in {"file", "bytes"}

\* How often a call occurs in the log of the call made.
Calls(name) == Cardinality({ i \in DOMAIN call_outcome.log : call_outcome.log[i] = name })

\* The error of the reader the file name selects.
GeometryError ==
    IF Supported(call_file) THEN call_env.parse ELSE "ParseError"

\* The fallback of the embedded thumbnail was run after a failed parse.
FallbackRun ==
    \E i, j \in DOMAIN call_outcome.log :
        i < j /\ call_outcome.log[i] = "parse" /\ call_outcome.log[j] = "extract_3mf"

\* C25 (as stated): a call that ends in Err after the fallback of the embedded
\* thumbnail was run and failed returns the fallback's own error, and a call
\* that ends in Err without the fallback returns the error of the geometry,
\* for the file and the bytes variant.
C25_FallbackFailureReturned ==
    (AnyCall /\ call_outcome.result = "Parse")
        => call_outcome.error = IF FallbackRun THEN "fallback" ELSE GeometryError

\* C25 (amended): a call that ends in Err returns the error of the geometry,
\* whether or not the fallback of the embedded thumbnail was run and failed;
\* the fallback's own error is the one discarded.  File and bytes variant.
C25_GeometryErrorReturned ==
    (AnyCall /\ call_outcome.result = "Parse")
        => /\ call_outcome.error = GeometryError
           /\ call_outcome.error \in {"ReadError", "ParseError", "MeshConvertError"}

C25_Witness ==
    /\ AnyCall
    /\ FallbackRun
    /\ call_env.extract = "failed"
    /\ call_outcome.result = "Parse"
    /\ call_outcome.error = "MeshConvertError"

\* C27: on a .3mf file with prefer_3mf_thumbnail set, a call that gets past
\* the test of the existing image extracts the embedded thumbnail first and
\* at most once; when that succeeds parse_file is never called; when it
\* fails parse_file is called next, and a failure of parse_file is returned
\* with no second extraction, fallback_3mf_thumbnail set or not.
C27_PreferMakesFallbackMoot ==
    (/\ AnyCall
     /\ EndsWith(call_file, ThreeMf)
     /\ call_options.prefer_3mf_thumbnail
     /\ call_outcome.log # <<>>)
        => /\ call_outcome.log[1] = "extract_3mf"
           /\ Calls("extract_3mf") = 1
           /\ IF call_env.extract = "ok"
              THEN Calls("parse") = 0 /\ call_outcome.result = "Ok"
              ELSE /\ Len(call_outcome.log) >= 2
                   /\ call_outcome.log[2] = "parse"
                   /\ Calls("parse") = 1
                   /\ call_env.parse # "Ok"
                         => /\ call_outcome.result = "Parse"
                            /\ call_outcome.error = call_env.parse
                            /\ call_outcome.log = <<"extract_3mf", "parse">>

C27_Witness ==
    /\ FileCall
    /\ EndsWith(call_file, ThreeMf)
    /\ call_options.prefer_3mf_thumbnail
    /\ call_options.fallback_3mf_thumbnail
    /\ call_env.extract = "failed"
    /\ call_env.parse = "ParseError"
    /\ call_outcome.log = <<"extract_3mf", "parse">>
    /\ call_outcome.result = "Parse"

\* C26: a call of generate_thumbnail_for_file that ends in the Err of a
\* failed parse has written no image file, whole or in part.
C26_NoOutputForFailedFile ==
    (FileCall /\ call_outcome.result = "Parse")
        => call_outcome.files = <<>> /\ ~call_outcome.written

\* The file was in the output directory before the call.
Existed(f) ==
    \/ f.index = None /\ call_env.image_exists
    \/ f.index = Some(0) /\ call_env.indexed_exist

\* C28: with overwrite false, no file generate_thumbnail_for_file writes
\* was in the output directory before the call, for any number of images.
C28_ExistingOutputUntouched ==
    (FileCall /\ ~call_options.overwrite)
        => \A i \in DOMAIN call_outcome.files : ~Existed(call_outcome.files[i])

\* parse_file succeeded and render_model was called.
GeometryRendered == FileCall /\ Calls("build_models") > 0

\* The number of images a request for n is a request for.
Requested == IF call_options.images_per_file < 1 THEN 1 ELSE call_options.images_per_file

\* The files render_model wrote: the ones after the call of build_models.
RenderedFiles ==
    SubSeq(call_outcome.files, Len(call_outcome.files) - Len(call_outcome.views) + 1,
           Len(call_outcome.files))

\* The number a text of decimal digits stands for, -1 for any other text.
RECURSIVE ValueOf(_)
ValueOf(digits) ==
    IF digits = <<>> THEN 0
    ELSE LET last == digits[Len(digits)]
             rest == ValueOf(SubSeq(digits, 1, Len(digits) - 1))
         IN IF rest < 0 \/ ~(\E d \in 0..9 : DigitChars[d + 1] = last) THEN -1
            ELSE 10 * rest + (CHOOSE d \in 0..9 : DigitChars[d + 1] = last)

\* What stands between "<stem>-" and ".<extension>" in the name of a file
\* written for the image name base; nothing when the name is not of that
\* form.
IndexText(name, base) ==
    LET stem == FileStem(base)
        ext == Extension(base)
        from == Len(stem) + 2
        to == Len(name) - Len(ext) - 1
    IN IF /\ from <= to
          /\ SubSeq(name, 1, from - 1) = stem \o <<"-">>
          /\ SubSeq(name, to + 1, Len(name)) = <<".">> \o ext
       THEN SubSeq(name, from, to)
       ELSE <<>>

\* Image k of n is at azimuth k * 360 / n, the file it is in has its own
\* name, and a request for less than one image is a request for one, written
\* under the plain image name at the caller's azimuth.
CountsAndAzimuths ==
    /\ Len(RenderedFiles) = Requested
    /\ Len(call_outcome.views) = Requested
    /\ Requested > 1 =>
          /\ \A k \in 0..(Requested - 1) :
                call_outcome.views[k + 1][1] * Requested
                    = 360 * k * call_outcome.views[k + 1][2]
          /\ \A i, j \in DOMAIN RenderedFiles :
                i # j => RenderedFiles[i].name # RenderedFiles[j].name
    /\ Requested = 1 =>
          /\ RenderedFiles[1].name = FilenameImage(call_file)
          /\ call_outcome.views[1][1]
                = call_options.rotatex * call_outcome.views[1][2]

C24_BoundingBoxComputedOnce ==
    GeometryRendered =>
        /\ Calls("parse") = 1
        /\ Calls("aabb") = 1
        /\ Calls("place") = Requested
        /\ Calls("render") = Requested

\* C24 (amended): when geometry is rendered for N images, parse_file is
\* called once and the models are built once from its parts; the bounding
\* box is computed anew in each of the N renders, before the placement.
C24_BoundingBoxComputedPerRender ==
    GeometryRendered =>
        /\ Calls("parse") = 1
        /\ Calls("build_models") = 1
        /\ Calls("aabb") = Requested
        /\ Calls("place") = Requested
        /\ Calls("render") = Requested
        /\ Calls("save") = Requested
        /\ \A i \in DOMAIN call_outcome.log :
              call_outcome.log[i] = "place" => call_outcome.log[i - 1] = "aabb"

C24_Witness ==
    /\ GeometryRendered
    /\ Requested = 3
    /\ Calls("aabb") = 3
    /\ Calls("parse") = 1

\* ========================================================================
\* load_thumbnail_from_gcode_reader
\* ========================================================================

\* u32::MAX, scaled down: widths, heights and areas are 0..U32Max.
U32Max == 15

\* A line of the G-code file: whether lines() can read it, its length in
\* bytes, what it starts with, the width and height of its fourth word
\* (None when the line has three words only), and its text from byte 2
\* on, trimmed, as base64 groups.
TLine(readable, len, prefix, size, data) ==
    [readable |-> readable, len |-> len, prefix |-> prefix, size |-> size,
     data |-> data]

Base64Png == "iVBO"            \* a group that decodes, the start of a PNG
NotBase64 == "!!!!"            \* a group that does not decode

ThumbLines ==
    { TLine(TRUE, 24, "begin", Some(<<2, 2>>), <<>>),   \* "; thumbnail begin 2x2 8"
      TLine(TRUE, 24, "begin", Some(<<4, 4>>), <<>>),   \* "; thumbnail begin 4x4 8"
      TLine(TRUE, 24, "begin", Some(<<0, 0>>), <<>>),   \* "; thumbnail begin axb 8"
      TLine(TRUE, 17, "begin", None, <<>>),             \* "; thumbnail begin"
      TLine(TRUE, 15, "end", None, <<>>),               \* "; thumbnail end"
      TLine(TRUE, 6, "other", None, <<Base64Png>>),     \* "; iVBO"
      TLine(TRUE, 6, "other", None, <<NotBase64>>),     \* "; !!!!"
      TLine(TRUE, 0, "other", None, <<>>),              \* ""
      TLine(TRUE, 1, "other", None, <<>>),              \* ";"
      TLine(TRUE, 24, "exec", None, <<"EXEC">>),        \* "; EXECUTABLE_BLOCK_START"
      TLine(FALSE, 0, "other", None, <<>>) }            \* bytes that are no UTF-8

\* BASE64_STANDARD.decode(&image): the bytes, or None
Base64Decode(groups) ==
    IF \A i \in DOMAIN groups : groups[i] = Base64Png THEN Some(groups) ELSE None

\* GcodeImage::area: the product, and whether it overflows u32
Area(img) == (img.width * img.height) % (U32Max + 1)
AreaOverflows(img) == img.width * img.height > U32Max

\* gcode_images.sort_by(|a, b| b.area().cmp(&a.area())): stable, largest first
RECURSIVE InsertByArea(_, _)
InsertByArea(sorted, img) ==
    IF sorted = <<>> THEN <<img>>
    ELSE IF Area(Head(sorted)) >= Area(img)
    THEN <<Head(sorted)>> \o InsertByArea(Tail(sorted), img)
    ELSE <<img>> \o sorted
RECURSIVE SortByAreaFrom(_, _, _)
SortByAreaFrom(imgs, k, sorted) ==
    IF k > Len(imgs) THEN sorted
    ELSE SortByAreaFrom(imgs, k + 1, InsertByArea(sorted, imgs[k]))
SortByAreaDesc(imgs) == SortByAreaFrom(imgs, 1, <<>>)

\* ImageReader::decode on the bytes: an image when they start a PNG
Decodes(data) == data # <<>> /\ data[1] = Base64Png

\* The loop's local variables as one record; stop is why the loop ended.
ThumbState ==
    [gcode_images |-> gcode_images, in_gcode_section |-> in_gcode_section,
     gcode_img_width |-> gcode_img_width, gcode_img_height |-> gcode_img_height,
     image |-> image, stop |-> "none"]

\* lines 788-803
ThumbnailBegin(s, line) ==
    IF IsSome(line.size)
    THEN [s EXCEPT
            !.gcode_img_width = Unwrap(line.size)[1],
            !.gcode_img_height = Unwrap(line.size)[2],
            !.image = <<>>,
            !.in_gcode_section = Unwrap(line.size)[1] > 0 /\ Unwrap(line.size)[2] > 0]
    ELSE s

\* lines 804-818
ThumbnailEnd(s) ==
    LET decoded == Base64Decode(s.image)
    IN IF IsSome(decoded)
       THEN [s EXCEPT
               !.in_gcode_section = FALSE,
               !.gcode_images = Append(@, [width |-> s.gcode_img_width,
                                           height |-> s.gcode_img_height,
                                           data |-> Unwrap(decoded)])]
       ELSE [s EXCEPT !.in_gcode_section = FALSE]

\* line 820: line[2..] panics on a line shorter than two bytes
ThumbnailData(s, line) ==
    IF line.len < 2 THEN [s EXCEPT !.stop = "panic"]
    ELSE [s EXCEPT !.image = @ \o line.data]

\* The body of the loop over lines().map_while(Result::ok), lines 787-824
ScanThumbLine(s, line) ==
    IF ~line.readable THEN [s EXCEPT !.stop = "unreadable"]
    ELSE IF line.prefix = "begin" THEN ThumbnailBegin(s, line)
    ELSE IF line.prefix = "end" THEN ThumbnailEnd(s)
    ELSE IF s.in_gcode_section THEN ThumbnailData(s, line)
    ELSE IF line.prefix = "exec" THEN [s EXCEPT !.stop = "break"]
    ELSE s

\* lines 826-835: the Result after the loop
ThumbResult(imgs) ==
    IF Len(imgs) >= 2 /\ overflow_checks /\ \E i \in DOMAIN imgs : AreaOverflows(imgs[i])
    THEN "Panic"
    ELSE IF imgs = <<>> THEN "Err"
    ELSE IF Decodes(SortByAreaDesc(imgs)[1].data) THEN "Image" ELSE "Err"

SetThumbState(s) ==
    /\ gcode_images' = s.gcode_images
    /\ in_gcode_section' = s.in_gcode_section
    /\ gcode_img_width' = s.gcode_img_width
    /\ gcode_img_height' = s.gcode_img_height
    /\ image' = s.image

GtRest ==
    /\ gcode_images = <<>>
    /\ in_gcode_section = FALSE
    /\ gcode_img_width = 0
    /\ gcode_img_height = 0
    /\ image = <<>>
    /\ gt_result = "none"
    /\ gt_stop = "none"
    /\ h_lines = <<>>
    /\ h_section = FALSE

GtIdle == GtRest /\ gt_pc = "idle"

GtInit == GtRest /\ gt_pc = "scan"

\* One iteration of the loop.
GtReadLine ==
    /\ gt_pc = "scan"
    /\ Len(h_lines) < MaxThumbLines
    /\ \E line \in ThumbLines :
          LET s == ScanThumbLine(ThumbState, line)
          IN /\ SetThumbState(s)
             /\ gt_stop' = s.stop
             /\ h_lines' = Append(h_lines, line)
             /\ IF s.stop = "none"
                THEN gt_pc' = "scan" /\ gt_result' = gt_result
                ELSE IF s.stop = "panic"
                THEN gt_pc' = "done" /\ gt_result' = "Panic"
                ELSE gt_pc' = "done" /\ gt_result' = ThumbResult(s.gcode_images)
    /\ h_section' = in_gcode_section

\* The end of the input.
GtFinish ==
    /\ gt_pc = "scan"
    /\ gt_pc' = "done"
    /\ gt_stop' = "eof"
    /\ gt_result' = ThumbResult(gcode_images)
    /\ UNCHANGED <<gcode_images, in_gcode_section, gcode_img_width, gcode_img_height,
                   image, h_lines, h_section>>

\* C30: the function returns an image or an error for every sequence of
\* lines, also with an empty or one-character line inside a thumbnail
\* section, and the scan stops at "; EXECUTABLE_BLOCK_START" only outside a
\* thumbnail section.
C30_ThumbnailScanNeverAborts ==
    gt_pc = "done" =>
        /\ gt_result \in {"Image", "Err"}
        /\ gt_stop = "break" => ~h_section

\* ========================================================================
\* render_pixels_for_view: the combined bounding box and the placement
\* ========================================================================
\* Vec3 is <<x, y, z>>, Mat4 its four columns as in FromCols.  Coordinates
\* are even integers, so that the halving of line 549 is exact.

\* Mat4::from_translation
Translation(v) ==
    << <<1, 0, 0, 0>>, <<0, 1, 0, 0>>, <<0, 0, 1, 0>>, <<v[1], v[2], v[3], 1>> >>

\* Mat4::from_angle_x(Deg(270.0)): cos is 0 and sin is -1
AngleX270 == << <<1, 0, 0, 0>>, <<0, 0, -1, 0>>, <<0, 1, 0, 0>>, <<0, 0, 0, 1>> >>

\* Mat4::from_angle_y(Deg(180.0)): cos is -1 and sin is 0
AngleY180 == << <<-1, 0, 0, 0>>, <<0, 1, 0, 0>>, <<0, 0, -1, 0>>, <<0, 0, 0, 1>> >>

\* Mat4 * Mat4
MatMul(a, b) ==
    [c \in 1..4 |->
        [r \in 1..4 |->
            a[1][r] * b[c][1] + a[2][r] * b[c][2] + a[3][r] * b[c][3]
                + a[4][r] * b[c][4]]]

\* Mat4 * the point v
TransformPoint(m, v) ==
    [r \in 1..3 |-> m[1][r] * v[1] + m[2][r] * v[2] + m[3][r] * v[3] + m[4][r]]

\* f32::min and f32::max
FMin(a, b) == IF a <= b THEN a ELSE b
FMax(a, b) == IF a >= b THEN a ELSE b

\* The axis-aligned box of a non-empty set of points, as <<min, max>>.
BoxOf(points) ==
    << [r \in 1..3 |-> CHOOSE x \in { p[r] : p \in points } :
                           \A p \in points : x <= p[r]],
       [r \in 1..3 |-> CHOOSE x \in { p[r] : p \in points } :
                           \A p \in points : x >= p[r]] >>

\* The eight corners of a box.
Corners(box) ==
    { <<box[i][1], box[j][2], box[k][3]>> : i \in 1..2, j \in 1..2, k \in 1..2 }

\* model.aabb() after set_transformation, lines 533-535: the box of the
\* mesh's positions, its eight corners transformed and boxed again; the box
\* of a mesh without positions is empty (min +inf, max -inf).
ModelAabb(positions, transformation) ==
    IF positions = <<>> THEN None
    ELSE LET box == BoxOf({ positions[i] : i \in DOMAIN positions })
         IN Some(BoxOf({ TransformPoint(transformation, c) : c \in Corners(box) }))

\* The box of the last model alone.
CombinedBoxOfLast(meshes_, k, combined) ==
    IF meshes_ = <<>> THEN None
    ELSE ModelAabb(meshes_[Len(meshes_)].positions, meshes_[Len(meshes_)].transform)

\* lines 528-546: combined_min and combined_max after the k-th model on;
\* None stands for the infinities the loop starts from.
RECURSIVE CombinedBox(_, _, _)
CombinedBox(meshes_, k, combined) ==
    IF k > Len(meshes_) THEN combined
    ELSE LET aabb == ModelAabb(meshes_[k].positions, meshes_[k].transform)
         IN CombinedBox(meshes_, k + 1,
               IF ~IsSome(aabb) THEN combined
               ELSE IF ~IsSome(combined) THEN aabb
               ELSE Some(<< [r \in 1..3 |->
                                FMin(Unwrap(combined)[1][r], Unwrap(aabb)[1][r])],
                            [r \in 1..3 |->
                                FMax(Unwrap(combined)[2][r], Unwrap(aabb)[2][r])] >>))

\* lines 548-549
Centering(min, max) ==
    MatMul(Translation([r \in 1..3 |-> min[r] * (-1)]),
           Translation([r \in 1..3 |-> (min[r] - max[r]) \div 2]))

\* The centering applied after the rotation of the family.
OffsetRotatedFirst(file_, min, max) ==
    IF \/ EndsWith(file_, Stl) \/ EndsWith(file_, Stl \o Zip)
       \/ EndsWith(file_, ThreeMf)
       \/ EndsWith(file_, Obj) \/ EndsWith(file_, Obj \o Zip)
    THEN MatMul(Centering(min, max), AngleX270)
    ELSE MatMul(Centering(min, max), AngleY180)

\* lines 548-560: the tests for gcode are on "gcode" and "gcode.zip"
Offset(file_, min, max) ==
    IF \/ EndsWith(file_, Stl) \/ EndsWith(file_, Stl \o Zip)
       \/ EndsWith(file_, ThreeMf)
       \/ EndsWith(file_, Obj) \/ EndsWith(file_, Obj \o Zip)
    THEN MatMul(AngleX270, Centering(min, max))
    ELSE IF \/ EndsWith(file_, Tail(Gcode))
            \/ EndsWith(file_, Tail(Gcode) \o Zip)
    THEN MatMul(AngleY180, Centering(min, max))
    ELSE Centering(min, max)

\* The file names render_model is reached with: those parse_file has a
\* reader for.
RenderFiles ==
    { f \in { <<"a">> \o s1 \o s2 : s1 \in {<<>>, Stl, Obj, Gcode}, s2 \in Segments } :
        ParseFile(f) # "unknown" }

\* The positions of a mesh: a triangle, two points on a diagonal, none.
RenderPositions ==
    { << <<0, 0, 0>>, <<2, 0, 0>>, <<0, 4, 0>> >>,
      << <<-2, 2, 6>>, <<4, -4, 2>> >>,
      <<>> }

\* The placement of a mesh: none, a translation, a half turn about Z, a
\* shear of x along y.
RenderTransforms ==
    { Identity,
      Translation(<<4, -2, 6>>),
      << <<-1, 0, 0, 0>>, <<0, -1, 0, 0>>, <<0, 0, 1, 0>>, <<0, 0, 0, 1>> >>,
      << <<1, 0, 0, 0>>, <<2, 1, 0, 0>>, <<0, 0, 1, 0>>, <<0, 0, 0, 1>> >> }

RenderRest ==
    /\ r_file = <<>>
    /\ r_meshes = <<>>
    /\ combined_min = None
    /\ combined_max = None
    /\ r_offset = None
    /\ r_models = <<>>

RenderIdle == RenderRest /\ r_pc = "idle"
RenderInit == RenderRest /\ r_pc = "build"

\* parse_result.meshes gets one more part.
RenderAddMesh ==
    /\ r_pc = "build"
    /\ Len(r_meshes) < MaxMeshes
    /\ \E positions \in RenderPositions, transform \in RenderTransforms :
          r_meshes' = Append(r_meshes, Part(positions, <<>>, transform, None))
    /\ UNCHANGED <<r_file, r_pc, combined_min, combined_max, r_offset, r_models>>

\* render_pixels_for_view, lines 528-565; with no position in any mesh the
\* box stays at the infinities and no finite offset comes out of it.
RenderPixelsForView ==
    /\ r_pc = "build"
    /\ \E f \in RenderFiles : r_file' = f
    /\ LET combined == CombinedBox(r_meshes, 1, None)
       IN IF IsSome(combined)
          THEN /\ combined_min' = Some(Unwrap(combined)[1])
               /\ combined_max' = Some(Unwrap(combined)[2])
               /\ r_offset' = Some(Offset(r_file', Unwrap(combined)[1],
                                          Unwrap(combined)[2]))
               /\ r_models' = [i \in DOMAIN r_meshes |->
                                 Some(MatMul(Unwrap(r_offset'), r_meshes[i].transform))]
          ELSE /\ combined_min' = None
               /\ combined_max' = None
               /\ r_offset' = None
               /\ r_models' = [i \in DOMAIN r_meshes |-> None]
    /\ r_pc' = "done"
    /\ UNCHANGED r_meshes

\* ---- claims ----
Rendered == r_pc = "done"

\* C21: after render_pixels_for_view, every position of every part, moved
\* by the part's own transform, lies within combined_min and combined_max
\* on each axis.
C21_CombinedBoxContainsVertices ==
    Rendered =>
        \A i \in DOMAIN r_meshes :
            \A j \in DOMAIN r_meshes[i].positions :
                LET v == TransformPoint(r_meshes[i].transform, r_meshes[i].positions[j])
                IN /\ IsSome(combined_min)
                   /\ IsSome(combined_max)
                   /\ \A r \in 1..3 :
                         /\ Unwrap(combined_min)[r] <= v[r]
                         /\ v[r] <= Unwrap(combined_max)[r]

\* Two parts, one turned by a half turn and one sheared, both with points.
C21_Witness ==
    /\ Rendered
    /\ Len(r_meshes) = 2
    /\ r_meshes[1].positions # <<>>
    /\ r_meshes[2].positions # <<>>
    /\ r_meshes[1].transform[1][1] = -1
    /\ r_meshes[2].transform[2][1] = 2
    /\ Unwrap(combined_min)[1] < 0

\* The rotation of the family of the reader parse_file selects.
FamilyRotation(reader) ==
    IF reader \in {"stl", "stl.zip", "3mf", "obj", "obj.zip"} THEN Some(AngleX270)
    ELSE IF reader \in {"gcode", "gcode.zip"} THEN Some(AngleY180)
    ELSE None

\* The translation that takes the middle of the box to the origin.
ToMiddle ==
    Translation([r \in 1..3 |->
        0 - ((Unwrap(combined_min)[r] + Unwrap(combined_max)[r]) \div 2)])

\* C22: for a file name parse_file has a reader for, and parts with a
\* bounding box, the transformation every part is rendered with is the
\* rotation of the reader's family (270 degrees about X for stl, 3mf and
\* obj readers, 180 degrees about Y for gcode readers) times the centering
\* of the combined box times the part's own transform.
C22_FamilyRotationThenCentering ==
    (Rendered /\ IsSome(combined_min)) =>
        /\ IsSome(FamilyRotation(ParseFile(r_file)))
        /\ \A i \in DOMAIN r_meshes :
              r_models[i] =
                  Some(MatMul(MatMul(Unwrap(FamilyRotation(ParseFile(r_file))), ToMiddle),
                              r_meshes[i].transform))

C22_Witness ==
    /\ Rendered
    /\ ParseFile(r_file) = "gcode.zip"
    /\ Len(r_meshes) = 2
    /\ IsSome(combined_min)
    /\ ToMiddle # Identity
    /\ r_meshes[2].transform # Identity

\* ========================================================================
\* Specifications
\* ========================================================================
InitVolumes == VolInit /\ GcodeIdle /\ ObjIdle /\ ColorsIdle /\ MfIdle /\ ThumbIdle /\ GtIdle /\ CallIdle /\ RenderIdle

NextVolumes ==
    \/ VolReadLine /\ UNCHANGED <<gcodeVars, objVars, colorVars, mfVars, thumbVars, gtVars, callVars, renderVars>>
    \/ VolFinish /\ UNCHANGED <<gcodeVars, objVars, colorVars, mfVars, thumbVars, gtVars, callVars, renderVars>>

SpecVolumes == InitVolumes /\ [][NextVolumes]_vars

InitGcode == VolIdle /\ GcodeInit /\ ObjIdle /\ ColorsIdle /\ MfIdle /\ ThumbIdle /\ GtIdle /\ CallIdle /\ RenderIdle

NextGcode ==
    \/ GcodeReadLine /\ UNCHANGED <<volVars, objVars, colorVars, mfVars, thumbVars, gtVars, callVars, renderVars>>
    \/ GcodeFinish /\ UNCHANGED <<volVars, objVars, colorVars, mfVars, thumbVars, gtVars, callVars, renderVars>>

SpecGcode == InitGcode /\ [][NextGcode]_vars

InitObj == VolIdle /\ GcodeIdle /\ ObjInit /\ ColorsIdle /\ MfIdle /\ ThumbIdle /\ GtIdle /\ CallIdle /\ RenderIdle

NextObj ==
    \/ ObjAddObject /\ UNCHANGED <<volVars, gcodeVars, colorVars, mfVars, thumbVars, gtVars, callVars, renderVars>>
    \/ ObjAddGeometry /\ UNCHANGED <<volVars, gcodeVars, colorVars, mfVars, thumbVars, gtVars, callVars, renderVars>>
    \/ ObjAddShape /\ UNCHANGED <<volVars, gcodeVars, colorVars, mfVars, thumbVars, gtVars, callVars, renderVars>>
    \/ ObjParse /\ UNCHANGED <<volVars, gcodeVars, colorVars, mfVars, thumbVars, gtVars, callVars, renderVars>>

SpecObj == InitObj /\ [][NextObj]_vars

InitColors == VolIdle /\ GcodeIdle /\ ObjIdle /\ ColorsInit /\ MfIdle /\ ThumbIdle /\ GtIdle /\ CallIdle /\ RenderIdle

NextColors ==
    \/ ColAddEntry /\ UNCHANGED <<scanVars, gcodeVars, objVars, mfVars, thumbVars, gtVars, callVars, renderVars>>
    \/ ColExtract /\ UNCHANGED <<scanVars, gcodeVars, objVars, mfVars, thumbVars, gtVars, callVars, renderVars>>

SpecColors == InitColors /\ [][NextColors]_vars

Init3mf ==
    /\ VolIdle /\ GcodeIdle /\ ObjIdle /\ MfInit
    /\ color_line \in ColorLines /\ c_pc = "idle" /\ c_panic = FALSE
    /\ ThumbIdle /\ GtIdle /\ CallIdle /\ RenderIdle

Next3mf ==
    \/ MfExtractColors /\ UNCHANGED <<gcodeVars, objVars, thumbVars, gtVars, callVars, renderVars>>
    \/ MfReadConfigLine /\ UNCHANGED <<gcodeVars, objVars, thumbVars, gtVars, callVars, renderVars>>
    \/ MfConfigEnd /\ UNCHANGED <<gcodeVars, objVars, thumbVars, gtVars, callVars, renderVars>>
    \/ MfObjectMap /\ UNCHANGED <<gcodeVars, objVars, thumbVars, gtVars, callVars, renderVars>>
    \/ MfBuildItem /\ UNCHANGED <<gcodeVars, objVars, thumbVars, gtVars, callVars, renderVars>>
    \/ MfFinish /\ UNCHANGED <<gcodeVars, objVars, thumbVars, gtVars, callVars, renderVars>>

Spec3mf == Init3mf /\ [][Next3mf]_vars

InitThumb ==
    VolIdle /\ GcodeIdle /\ ObjIdle /\ ColorsIdle /\ MfIdle /\ ThumbInit /\ GtIdle /\ CallIdle /\ RenderIdle

NextThumb ==
    \/ PathAppend /\ UNCHANGED <<volVars, gcodeVars, objVars, colorVars, mfVars, gtVars, callVars, renderVars>>
    \/ GenerateThumbnailForFile
          /\ UNCHANGED <<volVars, gcodeVars, objVars, colorVars, mfVars, gtVars, callVars, renderVars>>

SpecThumb == InitThumb /\ [][NextThumb]_vars

InitGcodeThumb ==
    /\ VolIdle /\ GcodeIdle /\ ObjIdle /\ ColorsIdle /\ ThumbIdle
    /\ overflow_checks \in BOOLEAN /\ MfRest
    /\ GtInit /\ CallIdle /\ RenderIdle

otherVars == <<volVars, gcodeVars, objVars, colorVars, mfVars, thumbVars, callVars,
               renderVars>>

NextGcodeThumb ==
    \/ GtReadLine /\ UNCHANGED otherVars
    \/ GtFinish /\ UNCHANGED otherVars

SpecGcodeThumb == InitGcodeThumb /\ [][NextGcodeThumb]_vars

InitGenerate ==
    /\ VolIdle /\ GcodeIdle /\ ObjIdle /\ ColorsIdle /\ MfIdle /\ ThumbIdle /\ GtIdle
    /\ CallInit /\ RenderIdle

NextGenerate ==
    \/ CallGenerateThumbnailForFile
          /\ UNCHANGED <<volVars, gcodeVars, objVars, colorVars, mfVars, thumbVars,
                         gtVars, renderVars>>
    \/ CallGenerateThumbnailBytesForFile
          /\ UNCHANGED <<volVars, gcodeVars, objVars, colorVars, mfVars, thumbVars,
                         gtVars, renderVars>>

SpecGenerate == InitGenerate /\ [][NextGenerate]_vars

InitRender ==
    /\ VolIdle /\ GcodeIdle /\ ObjIdle /\ ColorsIdle /\ MfIdle /\ ThumbIdle /\ GtIdle
    /\ CallIdle /\ RenderInit

NextRender ==
    \/ RenderAddMesh
          /\ UNCHANGED <<volVars, gcodeVars, objVars, colorVars, mfVars, thumbVars,
                         gtVars, callVars>>
    \/ RenderPixelsForView
          /\ UNCHANGED <<volVars, gcodeVars, objVars, colorVars, mfVars, thumbVars,
                         gtVars, callVars>>

SpecRender == InitRender /\ [][NextRender]_vars

====
